---------------------------- MODULE Spec2Model ----------------------------
(***************************************************************************)
(* Model of halotools/halo_occupation.py: the assembly-bias machinery of   *)
(* Assembly_Biased_HOD_Model (halo type fractions, destruction functions,  *)
(* type-conditioned mean occupations) and the halo type classifier.        *)
(*                                                                         *)
(* The methods are array functions.  An array is a sequence; a float is an *)
(* exact rational <<numerator, denominator>> in lowest terms with a        *)
(* positive denominator, so equal numbers are equal tuples.                *)
(***************************************************************************)
EXTENDS Integers, Sequences, FiniteSets, TLC

VARIABLES
    method,          \* the method of Assembly_Biased_HOD_Model that was called
    halo_type,       \* its halo_type argument, one entry per halo of the batch
    type1_fraction,  \* halo_type1_fraction_{centrals,satellites} on the batch
    baseline,        \* baseline_hod_model.mean_{ncen,nsat} on the batch
    unconstrained,   \* unconstrained_{central,satellite}_destruction_halo_type1 on the batch
    result           \* the array the method returned

engineVars == <<method, halo_type, type1_fraction, baseline, unconstrained, result>>

VARIABLES
    outcome,                      \* how the call of halo_type_calculator ended
    primary_halo_property,        \* its arguments
    secondary_halo_property,
    halo_type_fraction_function,
    bin_spacing,
    halo_types                    \* the array it returned

calculatorVars == <<outcome, primary_halo_property, secondary_halo_property,
                    halo_type_fraction_function, bin_spacing, halo_types>>

VARIABLES
    caller,              \* the function called: the solver or a polynomial model
    abcissa,             \* the control points handed to it
    ordinates,
    polynomial_primary,  \* the primary halo property a polynomial model is evaluated on
    solver_outcome,      \* how the call ended
    polynomial_result    \* the array it returned

solverVars == <<caller, abcissa, ordinates, polynomial_primary, solver_outcome,
                polynomial_result>>

VARIABLES
    constructed_class,        \* the class whose constructor is called
    parameter_dict_argument,  \* its parameter_dict (baseline_hod_parameter_dict) argument
    threshold_argument,       \* its threshold argument
    construction,             \* how the call ended
    parameter_dict,           \* self.parameter_dict of the Zheng07_HOD_Model instance
    threshold,                \* self.threshold of the Zheng07_HOD_Model instance
    warnings                  \* the warnings emitted

constructorVars == <<constructed_class, parameter_dict_argument, threshold_argument,
                     construction, parameter_dict, threshold, warnings>>

VARIABLES
    logM,               \* the primary halo property an occupation method is called with
    logM_halo_type,     \* the halo_type argument of the call
    occupation_method,  \* the method called
    occupation          \* the array it returned

occupationVars == <<logM, logM_halo_type, occupation_method, occupation>>

VARIABLES
    defaults,                  \* the dictionaries of the defaults module
    model_parameter_dict_argument,  \* the assembias_parameter_dict or
                               \* quenching_parameter_dict argument of the constructor
    composite,                 \* the instance of the composite model
    composite_method,          \* the method of the instance that was called
    composite_primary_halo_property,  \* its arguments
    composite_halo_type,
    composite_result           \* the array it returned

compositeVars == <<defaults, model_parameter_dict_argument, composite, composite_method,
                   composite_primary_halo_property, composite_halo_type,
                   composite_result>>

vars == <<engineVars, calculatorVars, solverVars, constructorVars, occupationVars,
          compositeVars>>

\* Python's None.
None == [None |-> TRUE]

\* The parts of the state that a specification leaves alone: nothing called.
EngineIdle ==
    /\ method = "none"
    /\ halo_type = <<>>
    /\ type1_fraction = <<>>
    /\ baseline = <<>>
    /\ unconstrained = <<>>
    /\ result = <<>>

CalculatorIdle ==
    /\ outcome = "none"
    /\ primary_halo_property = <<>>
    /\ secondary_halo_property = <<>>
    /\ halo_type_fraction_function = <<>>
    /\ bin_spacing = <<0, 1>>
    /\ halo_types = <<>>

SolverIdle ==
    /\ caller = "none"
    /\ abcissa = <<>>
    /\ ordinates = <<>>
    /\ polynomial_primary = <<>>
    /\ solver_outcome = "none"
    /\ polynomial_result = <<>>

ConstructorIdle ==
    /\ constructed_class = "none"
    /\ parameter_dict_argument = None
    /\ threshold_argument = None
    /\ construction = "none"
    /\ parameter_dict = None
    /\ threshold = None
    /\ warnings = <<>>

OccupationIdle ==
    /\ logM = <<>>
    /\ logM_halo_type = <<>>
    /\ occupation_method = "none"
    /\ occupation = <<>>

CompositeIdle ==
    /\ defaults = None
    /\ model_parameter_dict_argument = None
    /\ composite = None
    /\ composite_method = "none"
    /\ composite_primary_halo_property = <<>>
    /\ composite_halo_type = <<>>
    /\ composite_result = <<>>

-----------------------------------------------------------------------------
(* Exact rational arithmetic.                                              *)

Abs(n) == IF n < 0 THEN -n ELSE n

RECURSIVE GCD(_, _)
GCD(a, b) == IF b = 0 THEN a ELSE GCD(b, a % b)

\* The rational n/d (d # 0) in lowest terms with a positive denominator.
Rat(n, d) ==
    LET s == IF d < 0 THEN -1 ELSE 1
        g == GCD(Abs(n), Abs(d))
    IN  <<(s * n) \div g, (s * d) \div g>>

Zero == <<0, 1>>
One == <<1, 1>>

RAdd(a, b) == Rat(a[1] * b[2] + b[1] * a[2], a[2] * b[2])
RSub(a, b) == Rat(a[1] * b[2] - b[1] * a[2], a[2] * b[2])
RMul(a, b) == Rat(a[1] * b[1], a[2] * b[2])
RDiv(a, b) == Rat(a[1] * b[2], a[2] * b[1])
RLt(a, b) == a[1] * b[2] < b[1] * a[2]
RLe(a, b) == a[1] * b[2] <= b[1] * a[2]
RGt(a, b) == RLt(b, a)
RGe(a, b) == RLe(b, a)
\* int(round(a)), with the built-in round of Python 2: halves away from zero.
RoundToInt(a) ==
    IF a[1] >= 0
    THEN (2 * a[1] + a[2]) \div (2 * a[2])
    ELSE -((2 * (-a[1]) + a[2]) \div (2 * a[2]))

RMin(a, b) == IF RLt(b, a) THEN b ELSE a
RMax(a, b) == IF RLt(a, b) THEN b ELSE a

-----------------------------------------------------------------------------
(* Bounds and the values the inputs are drawn from.                        *)

\* The largest batch (number of halos) a method is called with.
MaxBatch == 2

BatchSizes == 1..MaxBatch

HaloTypes == {0, 1}

\* The functions of the primary halo property that the methods evaluate are
\* tabulated on a grid of primary property values on which every combination
\* of the values below occurs.

\* Values of a type-1 fraction function, a probability.
FractionValues == <<Zero, Rat(1, 2), One>>

\* Values of the baseline mean central occupation, in [0, 1].
NcenValues == <<Zero, Rat(1, 4), One>>

\* Values of the baseline mean satellite occupation, a Poisson mean.
NsatValues == <<Zero, Rat(1, 4), Rat(3, 1)>>

\* The largest catalog (number of halos) halo_type_calculator is called with.
MaxHalos == 3

\* Values of the primary halo property in a catalog.
PrimaryValues == {Zero, One, Rat(3, 1)}

\* Secondary halo properties of a catalog of n halos.  Only their order
\* enters the calculator, so they are ranks: the values are 1..k for some k,
\* every one of them taken, equal ranks being ties.
SecondaryArrays(n) ==
    {[i \in 1..n |-> Rat(r[i], 1)] :
        r \in {q \in [1..n -> 1..n] :
                  \A v \in 1..n :
                      (\E i \in 1..n : q[i] = v) =>
                          \A w \in 1..v : \E j \in 1..n : q[j] = w}}

\* Bin widths halo_type_calculator is called with.
BinSpacings == {One, Rat(1, 2)}

\* Type-1 fraction functions handed to halo_type_calculator: <<c0, c1>> is
\* the function p |-> c0 + c1*p, clipped to [0, 1].
FractionFunctions ==
    {<<Zero, Zero>>, <<Rat(3, 10), Zero>>, <<Rat(1, 2), Zero>>, <<One, Zero>>,
     <<Zero, Rat(1, 4)>>}

\* Values of an unconstrained destruction function: any bounded real.
UnconstrainedValues == <<Rat(-1, 1), Rat(1, 2), Rat(5, 1)>>

\* The grid of primary halo property values.
PrimaryGrid ==
    1..(Len(FractionValues) * Len(NcenValues) * Len(UnconstrainedValues))

\* The values of the tabulated functions at the grid value p.
FractionAt(p) == FractionValues[((p - 1) % Len(FractionValues)) + 1]

NcenAt(p) ==
    NcenValues[(((p - 1) \div Len(FractionValues)) % Len(NcenValues)) + 1]

NsatAt(p) ==
    NsatValues[(((p - 1) \div Len(FractionValues)) % Len(NsatValues)) + 1]

UnconstrainedAt(p) ==
    UnconstrainedValues[((p - 1) \div (Len(FractionValues) * Len(NcenValues))) + 1]

\* The primary halo property of a batch of n halos, in ascending order.
Batches(n) ==
    {p \in [1..n -> PrimaryGrid] : \A i, j \in 1..n : i < j => p[i] <= p[j]}

-----------------------------------------------------------------------------
(* Assembly_Biased_HOD_Model.                                              *)

\* An array with every entry computed: the sequence of the values of x.
array(x) == SubSeq(x, 1, Len(x))

\* A local variable of a method: Body of the value v, v computed once.
Local(v, Body(_)) == CHOOSE r \in {Body(x) : x \in {v}} : TRUE

\* np.zeros(len(x)) + 1
all_ones(x) == [i \in 1..Len(x) |-> 1]

\* The fraction of halos of the input type: the type-1 fraction array, with
\* the entries of the type-0 halos replaced by their complement.
halo_type_fraction_centrals(F1, h) ==
    [i \in 1..Len(F1) |-> IF h[i] = 0 THEN RSub(One, F1[i]) ELSE F1[i]]

halo_type_fraction_satellites(F1, h) ==
    [i \in 1..Len(F1) |-> IF h[i] = 0 THEN RSub(One, F1[i]) ELSE F1[i]]

\* Variant: the output is the larger of the two cases.
maximum_destruction_centrals_larger_case(F1, N, h) ==
    LET halo_type_fraction == halo_type_fraction_centrals(F1, h)
        case1 == [i \in 1..Len(F1) |->
                    IF RGt(halo_type_fraction[i], Zero)
                    THEN RDiv(One, halo_type_fraction[i]) ELSE Zero]
        case2 == [i \in 1..Len(F1) |->
                    IF RGt(N[i], Zero) THEN RDiv(One, N[i]) ELSE Zero]
    IN  [i \in 1..Len(F1) |->
            IF RGt(case2[i], case1[i]) THEN case2[i] ELSE case1[i]]

\* Both cases start from zeros; case 1 is 1/fraction where the fraction is
\* positive, case 2 is 1/<Ncen> where <Ncen> is positive; the output is case 1
\* overwritten by case 2 wherever case 2 is the smaller.
maximum_destruction_centrals(F1, N, h) ==
    LET halo_type_fraction == halo_type_fraction_centrals(F1, h)
        case1 == [i \in 1..Len(F1) |->
                    IF RGt(halo_type_fraction[i], Zero)
                    THEN RDiv(One, halo_type_fraction[i]) ELSE Zero]
        case2 == [i \in 1..Len(F1) |->
                    IF RGt(N[i], Zero) THEN RDiv(One, N[i]) ELSE Zero]
    IN  [i \in 1..Len(F1) |->
            IF RLt(case2[i], case1[i]) THEN case2[i] ELSE case1[i]]

\* Defined by the class, called by none of its methods.
minimum_destruction_centrals(F1, N, h) ==
    LET halo_type_fraction == halo_type_fraction_centrals(F1, h)
        raw == [i \in 1..Len(F1) |->
                  IF RGt(halo_type_fraction[i], Zero) /\ RGt(N[i], Zero)
                  THEN RDiv(RSub(One, RDiv(RSub(One, halo_type_fraction[i]), N[i])),
                            halo_type_fraction[i])
                  ELSE Zero]
    IN  [i \in 1..Len(F1) |-> IF RLt(raw[i], Zero) THEN Zero ELSE raw[i]]

\* Variant: no ceiling where the fraction is zero.
maximum_destruction_satellites_unbounded(F1, h) ==
    LET halo_type_fraction == halo_type_fraction_satellites(F1, h)
    IN  [i \in 1..Len(F1) |->
            IF RGt(halo_type_fraction[i], Zero)
            THEN RDiv(One, halo_type_fraction[i]) ELSE Rat(1000, 1)]

maximum_destruction_satellites(F1, h) ==
    LET halo_type_fraction == halo_type_fraction_satellites(F1, h)
    IN  [i \in 1..Len(F1) |->
            IF RGt(halo_type_fraction[i], Zero)
            THEN RDiv(One, halo_type_fraction[i]) ELSE Zero]

\* Variant: every positive value is moved to the maximum.
apply_constraints_saturating(D, maximum, probability_type1) ==
    LET floored == [i \in 1..Len(D) |-> IF RLt(D[i], Zero) THEN Zero ELSE D[i]]
        capped == [i \in 1..Len(D) |->
                     IF RGt(floored[i], Zero) THEN maximum[i] ELSE floored[i]]
    IN  [i \in 1..Len(D) |-> IF probability_type1[i] = One THEN One ELSE capped[i]]

\* Variant: unity where the type-1 probability is unity, then floor and ceiling.
apply_constraints_override_first(D, maximum, probability_type1) ==
    LET unit == [i \in 1..Len(D) |-> IF probability_type1[i] = One THEN One ELSE D[i]]
        floored == [i \in 1..Len(D) |-> IF RLt(unit[i], Zero) THEN Zero ELSE unit[i]]
    IN  [i \in 1..Len(D) |->
            IF RGt(floored[i], maximum[i]) THEN maximum[i] ELSE floored[i]]

\* The three constraints applied as if every halo had type 1, in the order
\* of the code: floor at zero, ceiling at the maximum, unity where the type-1
\* probability is unity.
apply_constraints(D, maximum, probability_type1) ==
    LET floored == [i \in 1..Len(D) |-> IF RLt(D[i], Zero) THEN Zero ELSE D[i]]
        capped == [i \in 1..Len(D) |->
                     IF RGt(floored[i], maximum[i]) THEN maximum[i] ELSE floored[i]]
    IN  [i \in 1..Len(D) |-> IF probability_type1[i] = One THEN One ELSE capped[i]]

\* Variant: the type-1 value enters the type-0 branch unweighted.
write_back_type0_unweighted(d1, probability_type1, h) ==
    [i \in 1..Len(d1) |->
        IF h[i] = 0
        THEN LET probability_type0 == RSub(One, probability_type1[i])
             IN  IF RGt(probability_type0, Zero)
                 THEN RDiv(RSub(One, d1[i]), probability_type0)
                 ELSE IF probability_type0 = Zero THEN Zero ELSE d1[i]
        ELSE d1[i]]

\* Variant: entries with no type-0 representation are not set to zero.
write_back_type0_keeps_unrepresented(d1, probability_type1, h) ==
    [i \in 1..Len(d1) |->
        IF h[i] = 0
        THEN LET probability_type0 == RSub(One, probability_type1[i])
             IN  IF RGt(probability_type0, Zero)
                 THEN RDiv(RSub(One, RMul(d1[i], probability_type1[i])),
                           probability_type0)
                 ELSE d1[i]
        ELSE d1[i]]

\* The type-0 branch and the write back: entries of type-0 halos become
\* (1 - d1*P1)/P0 where P0 > 0 and 0 where P0 = 0; other entries are kept.
write_back_type0(d1, probability_type1, h) ==
    [i \in 1..Len(d1) |->
        IF h[i] = 0
        THEN LET probability_type0 == RSub(One, probability_type1[i])
             IN  IF RGt(probability_type0, Zero)
                 THEN RDiv(RSub(One, RMul(d1[i], probability_type1[i])),
                           probability_type0)
                 ELSE IF probability_type0 = Zero THEN Zero ELSE d1[i]
        ELSE d1[i]]

\* output_destruction_allhalos of destruction_satellites before the type-0 branch.
conditioned_satellites(D, F1) ==
    apply_constraints(D,
        maximum_destruction_satellites(F1, all_ones(D)),
        halo_type_fraction_satellites(F1, all_ones(D)))

destruction_satellites(D, F1, h) ==
    write_back_type0(conditioned_satellites(D, F1),
        halo_type_fraction_satellites(F1, all_ones(D)), h)

\* Variant: the ceiling of the centrals is the satellites' ceiling.
conditioned_centrals_without_baseline_bound(D, F1, N) ==
    apply_constraints(D,
        maximum_destruction_satellites(F1, all_ones(D)),
        halo_type_fraction_centrals(F1, all_ones(D)))

\* output_destruction_allhalos of destruction_centrals before the type-0 branch.
conditioned_centrals(D, F1, N) ==
    apply_constraints(D,
        maximum_destruction_centrals(F1, N, all_ones(D)),
        halo_type_fraction_centrals(F1, all_ones(D)))

destruction_centrals(D, F1, N, h) ==
    write_back_type0(conditioned_centrals(D, F1, N),
        halo_type_fraction_centrals(F1, all_ones(D)), h)

\* Variant: the halo type is not passed on to the destruction function.
mean_ncen_ignoring_type(D, F1, N, h) ==
    [i \in 1..Len(D) |-> RMul(destruction_centrals(D, F1, N, all_ones(D))[i], N[i])]

mean_ncen(D, F1, N, h) ==
    [i \in 1..Len(D) |-> RMul(destruction_centrals(D, F1, N, h)[i], N[i])]

\* Variant: the satellites take the destruction function of the centrals,
\* whose ceiling involves the baseline.
mean_nsat_with_baseline_ceiling(D, F1, N, h) ==
    [i \in 1..Len(D) |-> RMul(destruction_centrals(D, F1, N, h)[i], N[i])]

mean_nsat(D, F1, N, h) ==
    [i \in 1..Len(D) |-> RMul(destruction_satellites(D, F1, h)[i], N[i])]

-----------------------------------------------------------------------------
(* Assembly_Biased_HOD_Model.halo_type_calculator.                         *)

\* defaults.default_bin_max_epsilon: a small positive number.
default_bin_max_epsilon == Rat(1, 100)

\* The value of the fraction function f at p.
EvalFraction(f, p) ==
    RMax(Zero, RMin(One, RAdd(f[1], RMul(f[2], p))))

ArrayMin(x) == CHOOSE v \in {x[i] : i \in DOMAIN x} : \A i \in DOMAIN x : RLe(v, x[i])
ArrayMax(x) == CHOOSE v \in {x[i] : i \in DOMAIN x} : \A i \in DOMAIN x : RGe(v, x[i])

\* Nbins = int(round((maximum-minimum)/bin_spacing))
Nbins(primary, spacing) ==
    RoundToInt(RDiv(RSub(RAdd(ArrayMax(primary), default_bin_max_epsilon),
                         ArrayMin(primary)),
                    spacing))

\* np.linspace(minimum, maximum, num): num evenly spaced samples, the two
\* endpoints included; one sample is the minimum alone.
linspace(minimum, maximum, num) ==
    IF num <= 0 THEN <<>>
    ELSE IF num = 1 THEN <<minimum>>
    ELSE array([k \in 1..num |->
            RAdd(minimum, RMul(Rat(k - 1, num - 1), RSub(maximum, minimum)))])

primary_halo_property_bins(primary, spacing) ==
    linspace(ArrayMin(primary),
             RAdd(ArrayMax(primary), default_bin_max_epsilon),
             Nbins(primary, spacing))

\* bins[0:-1] + np.diff(bins)/2: one entry per pair of neighbouring edges.
bin_midpoints(bins) ==
    IF Len(bins) <= 1 THEN <<>>
    ELSE array([k \in 1..(Len(bins) - 1) |->
            RAdd(bins[k], RDiv(RSub(bins[k + 1], bins[k]), Rat(2, 1)))])

\* Variant: the type-1 fraction itself, not its complement.
bin_splitting_fraction_of_type1(f, bins) ==
    LET midpoints == bin_midpoints(bins)
    IN  array([k \in DOMAIN midpoints |-> EvalFraction(f, midpoints[k])])

\* Entry k belongs to the bin of index k - 1 of the code.
bin_splitting_fraction(f, bins) ==
    LET midpoints == bin_midpoints(bins)
    IN  array([k \in DOMAIN midpoints |-> RSub(One, EvalFraction(f, midpoints[k]))])

\* np.digitize(x, bins) - 1: the number of edges at or below x, less one.
array_of_bin_indices(primary, bins) ==
    array([i \in DOMAIN primary |->
        Cardinality({k \in DOMAIN bins : RLe(bins[k], primary[i])}) - 1])

\* The positions of the halos of bin b, in the order of the array.
halos_with_bin_index(indices, b) ==
    SelectSeq([i \in DOMAIN indices |-> i], LAMBDA i : indices[i] = b)

\* Variant: the halos of the bin in the order of the array, unsorted.
argsort_array_order(members, order) == members

\* np.argsort of the values of the halos in members: the halos in
\* ascending order of value.  The sort leaves the order of equal values
\* open; order is what it makes of the whole catalog, and the halos of one
\* bin come in that order.
argsort(members, order) ==
    SelectSeq(order, LAMBDA a : \E j \in DOMAIN members : members[j] = a)

\* bin_splitting_index of the bin of index b.
bin_splitting_index(members, fractions, b) ==
    RoundToInt(RMul(Rat(Len(members), 1), fractions[b + 1]))

\* A subscript of the code on bin_splitting_fraction is in range: Python
\* counts a negative subscript from the end.
ValidSubscript(fractions, b) ==
    IF b >= 0 THEN b + 1 \in DOMAIN fractions ELSE Len(fractions) + b + 1 \in DOMAIN fractions

\* The loop over the occupied bins: the halos set to type 0 are, in each
\* bin, the first bin_splitting_index halos of the sort (a slice stops at
\* the end of the array).
TypeZeroHalos(indices, fractions, order) ==
    UNION { LET members == halos_with_bin_index(indices, b)
                sorted == argsort(members, order)
                split == bin_splitting_index(members, fractions, b)
            IN  {sorted[r] : r \in {q \in DOMAIN sorted : q <= split}}
          : b \in {indices[i] : i \in DOMAIN indices} }

\* The call raises IndexError when an occupied bin has no splitting fraction.
RaisesIndexError(primary, f, spacing) ==
    Local(primary_halo_property_bins(primary, spacing), LAMBDA bins :
        Local(bin_splitting_fraction(f, bins), LAMBDA fractions :
            Local(array_of_bin_indices(primary, bins), LAMBDA indices :
                \E i \in DOMAIN indices : ~ValidSubscript(fractions, indices[i]))))

\* The array returned: ones, with zeros at the halos set to type 0.
halo_type_calculator(primary, f, spacing, order) ==
    Local(primary_halo_property_bins(primary, spacing), LAMBDA bins :
        Local(bin_splitting_fraction(f, bins), LAMBDA fractions :
            Local(array_of_bin_indices(primary, bins), LAMBDA indices :
                Local(TypeZeroHalos(indices, fractions, order), LAMBDA zeros :
                    array([i \in DOMAIN primary |-> IF i \in zeros THEN 0 ELSE 1])))))

\* The orders a sort may put the halos of S in: ascending in value, equal
\* values in any order.
RECURSIVE SortOrdersOf(_, _)
SortOrdersOf(values, S) ==
    IF S = {} THEN {<<>>}
    ELSE UNION { {<<a>> \o rest : rest \in SortOrdersOf(values, S \ {a})}
               : a \in {m \in S : \A o \in S : RLe(values[m], values[o])} }

SortOrders(values) == SortOrdersOf(values, DOMAIN values)

-----------------------------------------------------------------------------
(* The calls.  A method is called with a batch of halos: their primary     *)
(* halo property p and their halo types.  The state keeps the halo types   *)
(* and the arrays that the functions the method evaluates (the subclass's  *)
(* type-1 fraction and unconstrained destruction, the baseline occupation) *)
(* return on p.  An array the method does not evaluate stays empty.        *)

Init ==
    /\ CompositeIdle
    /\ method = "none"
    /\ halo_type = <<>>
    /\ type1_fraction = <<>>
    /\ baseline = <<>>
    /\ unconstrained = <<>>
    /\ result = <<>>
    /\ outcome = "none"
    /\ primary_halo_property = <<>>
    /\ secondary_halo_property = <<>>
    /\ halo_type_fraction_function = <<>>
    /\ bin_spacing = Zero
    /\ halo_types = <<>>
    /\ SolverIdle
    /\ ConstructorIdle
    /\ OccupationIdle

CallDestructionCentrals ==
    /\ method = "none"
    /\ \E n \in BatchSizes :
        \E p \in Batches(n) :
            /\ halo_type' \in [1..n -> HaloTypes]
            /\ type1_fraction' = [i \in 1..n |-> FractionAt(p[i])]
            /\ baseline' = [i \in 1..n |-> NcenAt(p[i])]
            /\ unconstrained' = [i \in 1..n |-> UnconstrainedAt(p[i])]
    /\ method' = "destruction_centrals"
    /\ result' = destruction_centrals(unconstrained', type1_fraction', baseline', halo_type')
    /\ UNCHANGED <<calculatorVars, solverVars, constructorVars, occupationVars,
                   compositeVars>>

CallDestructionSatellites ==
    /\ method = "none"
    /\ \E n \in BatchSizes :
        \E p \in Batches(n) :
            /\ halo_type' \in [1..n -> HaloTypes]
            /\ type1_fraction' = [i \in 1..n |-> FractionAt(p[i])]
            /\ unconstrained' = [i \in 1..n |-> UnconstrainedAt(p[i])]
    /\ baseline' = <<>>
    /\ method' = "destruction_satellites"
    /\ result' = destruction_satellites(unconstrained', type1_fraction', halo_type')
    /\ UNCHANGED <<calculatorVars, solverVars, constructorVars, occupationVars,
                   compositeVars>>

CallMaximumDestructionCentrals ==
    /\ method = "none"
    /\ \E n \in BatchSizes :
        \E p \in Batches(n) :
            /\ halo_type' \in [1..n -> HaloTypes]
            /\ type1_fraction' = [i \in 1..n |-> FractionAt(p[i])]
            /\ baseline' = [i \in 1..n |-> NcenAt(p[i])]
    /\ unconstrained' = <<>>
    /\ method' = "maximum_destruction_centrals"
    /\ result' = maximum_destruction_centrals(type1_fraction', baseline', halo_type')
    /\ UNCHANGED <<calculatorVars, solverVars, constructorVars, occupationVars,
                   compositeVars>>

CallMaximumDestructionSatellites ==
    /\ method = "none"
    /\ \E n \in BatchSizes :
        \E p \in Batches(n) :
            /\ halo_type' \in [1..n -> HaloTypes]
            /\ type1_fraction' = [i \in 1..n |-> FractionAt(p[i])]
    /\ baseline' = <<>>
    /\ unconstrained' = <<>>
    /\ method' = "maximum_destruction_satellites"
    /\ result' = maximum_destruction_satellites(type1_fraction', halo_type')
    /\ UNCHANGED <<calculatorVars, solverVars, constructorVars, occupationVars,
                   compositeVars>>

CallMeanNcen ==
    /\ method = "none"
    /\ \E n \in BatchSizes :
        \E p \in Batches(n) :
            /\ halo_type' \in [1..n -> HaloTypes]
            /\ type1_fraction' = [i \in 1..n |-> FractionAt(p[i])]
            /\ baseline' = [i \in 1..n |-> NcenAt(p[i])]
            /\ unconstrained' = [i \in 1..n |-> UnconstrainedAt(p[i])]
    /\ method' = "mean_ncen"
    /\ result' = mean_ncen(unconstrained', type1_fraction', baseline', halo_type')
    /\ UNCHANGED <<calculatorVars, solverVars, constructorVars, occupationVars,
                   compositeVars>>

CallMeanNsat ==
    /\ method = "none"
    /\ \E n \in BatchSizes :
        \E p \in Batches(n) :
            /\ halo_type' \in [1..n -> HaloTypes]
            /\ type1_fraction' = [i \in 1..n |-> FractionAt(p[i])]
            /\ baseline' = [i \in 1..n |-> NsatAt(p[i])]
            /\ unconstrained' = [i \in 1..n |-> UnconstrainedAt(p[i])]
    /\ method' = "mean_nsat"
    /\ result' = mean_nsat(unconstrained', type1_fraction', baseline', halo_type')
    /\ UNCHANGED <<calculatorVars, solverVars, constructorVars, occupationVars,
                   compositeVars>>

Next ==
    \/ CallDestructionCentrals
    \/ CallDestructionSatellites
    \/ CallMaximumDestructionCentrals
    \/ CallMaximumDestructionSatellites
    \/ CallMeanNcen
    \/ CallMeanNsat

Spec == Init /\ [][Next]_vars

\* The catalog, the fraction function and the bin width that
\* halo_type_calculator is called with.
InitCalculator ==
    /\ CompositeIdle
    /\ method = "none"
    /\ halo_type = <<>>
    /\ type1_fraction = <<>>
    /\ baseline = <<>>
    /\ unconstrained = <<>>
    /\ result = <<>>
    /\ outcome = "none"
    /\ \E n \in 1..MaxHalos :
        /\ primary_halo_property \in [1..n -> PrimaryValues]
        /\ secondary_halo_property \in SecondaryArrays(n)
    /\ halo_type_fraction_function \in FractionFunctions
    /\ bin_spacing \in BinSpacings
    /\ halo_types = <<>>
    /\ SolverIdle
    /\ ConstructorIdle
    /\ OccupationIdle

\* The call raises at the first subscript out of range and returns nothing.
HaloTypeCalculatorRaises ==
    /\ outcome = "none"
    /\ RaisesIndexError(primary_halo_property, halo_type_fraction_function, bin_spacing)
    /\ outcome' = "IndexError"
    /\ UNCHANGED <<primary_halo_property, secondary_halo_property,
                   halo_type_fraction_function, bin_spacing, halo_types>>
    /\ UNCHANGED <<engineVars, solverVars, constructorVars, occupationVars,
                   compositeVars>>

\* The call returns the halo types; the sort is free to order equal values.
HaloTypeCalculatorReturns ==
    /\ outcome = "none"
    /\ ~RaisesIndexError(primary_halo_property, halo_type_fraction_function, bin_spacing)
    /\ \E order \in SortOrders(secondary_halo_property) :
        halo_types' = halo_type_calculator(
            primary_halo_property, halo_type_fraction_function, bin_spacing, order)
    /\ outcome' = "returned"
    /\ UNCHANGED <<primary_halo_property, secondary_halo_property,
                   halo_type_fraction_function, bin_spacing>>
    /\ UNCHANGED <<engineVars, solverVars, constructorVars, occupationVars,
                   compositeVars>>

NextCalculator ==
    \/ HaloTypeCalculatorRaises
    \/ HaloTypeCalculatorReturns

SpecCalculator == InitCalculator /\ [][NextCalculator]_vars

-----------------------------------------------------------------------------
(* solve_for_polynomial_coefficients and the polynomial models calling it. *)

\* The largest number of control points of a polynomial.
MaxControlPoints == 3

\* Values of the abcissa and of the ordinates of control points.
AbcissaValues == {Zero, One, Rat(2, 1), Rat(3, 1)}

OrdinateValues == {Zero, Rat(3, 4)}

\* Primary halo properties a polynomial model is evaluated on.
PolynomialBatches == {<<Rat(1, 2)>>, <<Rat(-1, 1), Rat(5, 1)>>}

Callers ==
    {"solve_for_polynomial_coefficients", "unconstrained_polynomial_model",
     "quenching_polynomial_model"}

RAbs(a) == Rat(Abs(a[1]), a[2])

\* a**k for a natural number k.
RECURSIVE RPow(_, _)
RPow(a, k) == IF k = 0 THEN One ELSE RMul(a, RPow(a, k - 1))

\* The sum of the entries of an array.
RECURSIVE RSum(_)
RSum(x) == IF Len(x) = 0 THEN Zero ELSE RAdd(x[1], RSum(Tail(x)))

\* The rows of quenching_model_matrix: row j holds the powers 0..N-1 of
\* abcissa[j] (the columns appended power by power, reshaped and transposed).
quenching_model_matrix(x) ==
    array([j \in DOMAIN x |-> array([i \in DOMAIN x |-> RPow(x[j], i - 1)])])

\* np.linalg.solve(a, b): elimination with partial pivoting.  It raises
\* LinAlgError when a column holds no pivot, and returns the solution
\* otherwise.
RECURSIVE linalg_solve(_, _)
linalg_solve(a, b) ==
    IF Len(a) = 0 THEN [error |-> "none", value |-> <<>>]
    ELSE
        LET n == Len(a)
            pivot == CHOOSE r \in 1..n :
                        \A q \in 1..n :
                            \/ RGt(RAbs(a[r][1]), RAbs(a[q][1]))
                            \/ RAbs(a[r][1]) = RAbs(a[q][1]) /\ r <= q
            others == SelectSeq([r \in 1..n |-> r], LAMBDA r : r # pivot)
            factor(r) == RDiv(a[r][1], a[pivot][1])
            reduced == array([k \in 1..(n - 1) |->
                           array([c \in 1..(n - 1) |->
                               RSub(a[others[k]][c + 1],
                                    RMul(factor(others[k]), a[pivot][c + 1]))])])
            reduced_b == array([k \in 1..(n - 1) |->
                             RSub(b[others[k]], RMul(factor(others[k]), b[pivot]))])
        IN  IF a[pivot][1] = Zero THEN [error |-> "LinAlgError", value |-> <<>>]
            ELSE Local(linalg_solve(reduced, reduced_b), LAMBDA rest :
                    IF rest.error # "none" THEN rest
                    ELSE [error |-> "none",
                          value |-> <<RDiv(RSub(b[pivot],
                                               RSum([c \in 1..(n - 1) |->
                                                   RMul(a[pivot][c + 1], rest.value[c])])),
                                          a[pivot][1])>> \o rest.value])

\* Variant: a solver that answers a singular system with zeros.
solve_for_polynomial_coefficients_never_raising(x, y) ==
    Local(linalg_solve(quenching_model_matrix(x), y), LAMBDA solution :
        IF solution.error # "none"
        THEN [error |-> "none", value |-> [i \in DOMAIN x |-> Zero]]
        ELSE solution)

\* Variant: the coefficients in descending order of degree.
solve_for_polynomial_coefficients_descending(x, y) ==
    Local(linalg_solve(quenching_model_matrix(x), y), LAMBDA solution :
        IF solution.error # "none" THEN solution
        ELSE [error |-> "none",
              value |-> [i \in DOMAIN x |-> solution.value[Len(x) + 1 - i]]])

\* solve_for_polynomial_coefficients: element i of the value is the
\* coefficient of degree i - 1.
solve_for_polynomial_coefficients(x, y) ==
    linalg_solve(quenching_model_matrix(x), y)

\* The polynomial with the given coefficients at p.
polynomial_value(coefficient_array, p) ==
    RSum([n \in DOMAIN coefficient_array |->
        RMul(coefficient_array[n], RPow(p, n - 1))])

\* Satcen_Correlation_Polynomial_HOD_Model.unconstrained_polynomial_model
\* and Polynomial_Assembly_Biased_HOD_Model.unconstrained_polynomial_model:
\* an error of the solver is not caught.
unconstrained_polynomial_model(x, y, primary) ==
    Local(solve_for_polynomial_coefficients(x, y), LAMBDA solution :
        IF solution.error # "none" THEN solution
        ELSE [error |-> "none",
              value |-> array([i \in DOMAIN primary |->
                            polynomial_value(solution.value, primary[i])])])

\* Variant: the fitted polynomial without the clamp.
quenching_polynomial_model_unclamped(x, y, primary) ==
    unconstrained_polynomial_model(x, y, primary)

\* vdB03_Quenching_Model.quenching_polynomial_model: the polynomial, set to
\* 0 where negative and to 1 where above 1.
quenching_polynomial_model(x, y, primary) ==
    Local(solve_for_polynomial_coefficients(x, y), LAMBDA solution :
        IF solution.error # "none" THEN solution
        ELSE [error |-> "none",
              value |-> array([i \in DOMAIN primary |->
                  Local(polynomial_value(solution.value, primary[i]), LAMBDA v :
                      IF RLt(v, Zero) THEN Zero
                      ELSE IF RGt(v, One) THEN One ELSE v)])])

\* The control points, and the function called with them.
InitSolver ==
    /\ CompositeIdle
    /\ EngineIdle
    /\ CalculatorIdle
    /\ ConstructorIdle
    /\ OccupationIdle
    /\ caller \in Callers
    /\ \E n \in 1..MaxControlPoints :
        /\ abcissa \in [1..n -> AbcissaValues]
        /\ ordinates \in [1..n -> OrdinateValues]
    /\ polynomial_primary \in
        IF caller = "solve_for_polynomial_coefficients" THEN {<<>>}
        ELSE PolynomialBatches
    /\ solver_outcome = "none"
    /\ polynomial_result = <<>>

CallSolveForPolynomialCoefficients ==
    /\ caller = "solve_for_polynomial_coefficients"
    /\ solver_outcome = "none"
    /\ LET call == solve_for_polynomial_coefficients(abcissa, ordinates)
       IN  /\ solver_outcome' = IF call.error = "none" THEN "returned" ELSE call.error
           /\ polynomial_result' = call.value
    /\ UNCHANGED <<caller, abcissa, ordinates, polynomial_primary>>
    /\ UNCHANGED <<engineVars, calculatorVars, constructorVars, occupationVars,
                   compositeVars>>

CallUnconstrainedPolynomialModel ==
    /\ caller = "unconstrained_polynomial_model"
    /\ solver_outcome = "none"
    /\ LET call == unconstrained_polynomial_model(abcissa, ordinates, polynomial_primary)
       IN  /\ solver_outcome' = IF call.error = "none" THEN "returned" ELSE call.error
           /\ polynomial_result' = call.value
    /\ UNCHANGED <<caller, abcissa, ordinates, polynomial_primary>>
    /\ UNCHANGED <<engineVars, calculatorVars, constructorVars, occupationVars,
                   compositeVars>>

CallQuenchingPolynomialModel ==
    /\ caller = "quenching_polynomial_model"
    /\ solver_outcome = "none"
    /\ LET call == quenching_polynomial_model(abcissa, ordinates, polynomial_primary)
       IN  /\ solver_outcome' = IF call.error = "none" THEN "returned" ELSE call.error
           /\ polynomial_result' = call.value
    /\ UNCHANGED <<caller, abcissa, ordinates, polynomial_primary>>
    /\ UNCHANGED <<engineVars, calculatorVars, constructorVars, occupationVars,
                   compositeVars>>

NextSolver ==
    \/ CallSolveForPolynomialCoefficients
    \/ CallUnconstrainedPolynomialModel
    \/ CallQuenchingPolynomialModel

SpecSolver == InitSolver /\ [][NextSolver]_vars

-----------------------------------------------------------------------------
(* Properties of the destruction functions.                                *)

Halos == DOMAIN result

Destruction == method \in {"destruction_centrals", "destruction_satellites"}

\* Two halos of the batch at the same primary halo property: the functions
\* of the primary property take the same values on both.
SamePoint(i, j) ==
    /\ type1_fraction[i] = type1_fraction[j]
    /\ unconstrained[i] = unconstrained[j]
    /\ method = "destruction_centrals" => baseline[i] = baseline[j]

\* The value the called destruction function returns at the point of halo i
\* when every halo of the batch is labelled type 1.
Type1Value(i) ==
    IF method = "destruction_centrals"
    THEN destruction_centrals(unconstrained, type1_fraction, baseline,
                              all_ones(unconstrained))[i]
    ELSE destruction_satellites(unconstrained, type1_fraction,
                                all_ones(unconstrained))[i]

\* The two bounds of the central ceiling at the point of halo i.
BoundA(i) ==
    IF RGt(type1_fraction[i], Zero) THEN RDiv(One, type1_fraction[i]) ELSE Zero

BoundB(i) ==
    IF RGt(baseline[i], Zero) THEN RDiv(One, baseline[i]) ELSE Zero

\* C1: conservation law.  For a type-1 halo and a type-0 halo at the same
\* primary property, the values d1 and d0 returned by destruction_centrals
\* or destruction_satellites satisfy F1*d1 + (1-F1)*d0 = 1, and so
\* F1*d1*N + F0*d0*N = N for the baseline occupation N.
ConservationLaw ==
    Destruction =>
        \A i, j \in Halos :
            (SamePoint(i, j) /\ halo_type[i] = 1 /\ halo_type[j] = 0) =>
                LET F1 == type1_fraction[i]
                    F0 == RSub(One, F1)
                IN  /\ RAdd(RMul(F1, result[i]), RMul(F0, result[j])) = One
                    /\ \A N \in {NcenValues[k] : k \in DOMAIN NcenValues}
                                \cup {NsatValues[k] : k \in DOMAIN NsatValues} :
                        RAdd(RMul(RMul(F1, result[i]), N),
                             RMul(RMul(F0, result[j]), N)) = N

\* A type-1 and a type-0 halo at one point where the ceiling clamps the
\* unconstrained value, and the baseline occupation is zero.
ConservationWitness ==
    /\ method = "destruction_centrals"
    /\ \E i, j \in Halos :
        /\ SamePoint(i, j) /\ halo_type[i] = 1 /\ halo_type[j] = 0
        /\ type1_fraction[i] = Rat(1, 2)
        /\ baseline[i] = Zero
        /\ unconstrained[i] = Rat(5, 1)
        /\ result[i] = Zero /\ result[j] = Rat(2, 1)

\* C2: boundary override.  Where the type-1 fraction is 1, the destruction
\* value returned for a type-1 halo is exactly 1, whatever the unconstrained
\* value and the baseline occupation.
BoundaryOverride ==
    Destruction =>
        \A i \in Halos :
            (halo_type[i] = 1 /\ type1_fraction[i] = One) => result[i] = One

\* The ceiling is 0 (baseline 0) and the unconstrained value is negative,
\* yet the value returned is 1.
BoundaryOverrideWitness ==
    /\ method = "destruction_centrals"
    /\ \E i \in Halos :
        /\ halo_type[i] = 1 /\ type1_fraction[i] = One
        /\ baseline[i] = Zero /\ unconstrained[i] = Rat(-1, 1)
        /\ result[i] = One

\* C3: non-negativity.  Every value returned by destruction_centrals and
\* destruction_satellites is greater than or equal to 0, for both halo types.
NonNegativity == Destruction => \A i \in Halos : RGe(result[i], Zero)

\* A type-0 halo where the type-1 value sits at its ceiling 1/F1, so the
\* derived type-0 value is exactly 0.
NonNegativityWitness ==
    /\ method = "destruction_satellites"
    /\ \E i \in Halos :
        /\ halo_type[i] = 0 /\ type1_fraction[i] = Rat(1, 2)
        /\ unconstrained[i] = Rat(5, 1) /\ result[i] = Zero

\* C4: the type-conditioned mean central occupation never exceeds 1, for
\* both halo types, wherever the baseline mean_ncen lies in (0, 1].
ConditionedCentralMeanAtMostOne ==
    method = "mean_ncen" =>
        \A i \in Halos :
            (RGt(baseline[i], Zero) /\ RLe(baseline[i], One)) => RLe(result[i], One)

\* C5: type-0 branch.  A type-0 halo gets (1 - d1*F1)/(1 - F1) where
\* 1 - F1 > 0 and 0 where 1 - F1 = 0, d1 being the type-1 value at the same
\* point; a type-1 halo keeps the type-1 value.
Type0Branch ==
    Destruction =>
        \A i \in Halos :
            LET F1 == type1_fraction[i]
                F0 == RSub(One, F1)
                d1 == Type1Value(i)
            IN  /\ halo_type[i] = 1 => result[i] = d1
                /\ (halo_type[i] = 0 /\ RGt(F0, Zero)) =>
                        result[i] = RDiv(RSub(One, RMul(d1, F1)), F0)
                /\ (halo_type[i] = 0 /\ F0 = Zero) => result[i] = Zero

\* A batch holding a type-0 halo where 1 - F1 = 0 and a type-0 halo where
\* 1 - F1 > 0 and the type-1 value is not 1.
Type0BranchWitness ==
    /\ method = "destruction_satellites"
    /\ \E i, j \in Halos :
        /\ halo_type[i] = 0 /\ type1_fraction[i] = One /\ result[i] = Zero
        /\ halo_type[j] = 0 /\ type1_fraction[j] = Rat(1, 2)
        /\ unconstrained[j] = Rat(1, 2) /\ result[j] = Rat(3, 2)

\* C6: where the type-1 fraction is 0 the ceiling for type-1 halos is 0,
\* so the type-1 destruction value is 0 whatever the unconstrained value,
\* and the type-0 value is 1; for centrals and for satellites.
ZeroFractionGivesZero ==
    \A i \in Halos :
        type1_fraction[i] = Zero =>
            /\ (method \in {"maximum_destruction_centrals",
                            "maximum_destruction_satellites"}
                    /\ halo_type[i] = 1) => result[i] = Zero
            /\ (Destruction /\ halo_type[i] = 1) => result[i] = Zero
            /\ (Destruction /\ halo_type[i] = 0) => result[i] = One

\* Unconstrained value 5 at a point without type-1 halos: type 1 gets 0 and
\* type 0 gets 1.
ZeroFractionWitness ==
    /\ method = "destruction_satellites"
    /\ \E i, j \in Halos :
        /\ SamePoint(i, j) /\ type1_fraction[i] = Zero
        /\ unconstrained[i] = Rat(5, 1)
        /\ halo_type[i] = 1 /\ result[i] = Zero
        /\ halo_type[j] = 0 /\ result[j] = One

MeanIsDestructionTimesBaseline ==
    /\ method = "mean_ncen" =>
        /\ Len(result) = Len(baseline)
        /\ \A i \in Halos :
            result[i] = RMul(destruction_centrals(unconstrained, type1_fraction,
                                                  baseline, halo_type)[i],
                             baseline[i])
    /\ method = "mean_nsat" =>
        /\ Len(result) = Len(baseline)
        /\ \A i \in Halos :
            result[i] = RMul(destruction_satellites(unconstrained, type1_fraction,
                                                    halo_type)[i],
                             baseline[i])

\* A batch of two halos of different types and baselines: each entry is the
\* product of its own destruction value and its own baseline.
MeanWitness ==
    /\ method = "mean_ncen"
    /\ Len(result) = 2
    /\ halo_type = <<0, 1>>
    /\ type1_fraction = <<Rat(1, 2), Rat(1, 2)>>
    /\ unconstrained = <<Rat(1, 2), Rat(5, 1)>>
    /\ baseline = <<One, Rat(1, 4)>>
    /\ result = <<Rat(3, 2), Rat(1, 2)>>

-----------------------------------------------------------------------------
(* Properties of halo_type_calculator.                                     *)

\* The bin edges and the bin index of every halo of the catalog.
CatalogBins == primary_halo_property_bins(primary_halo_property, bin_spacing)

CatalogBinIndices == array_of_bin_indices(primary_halo_property, CatalogBins)

\* C9: classifier fraction fidelity.  In every bin holding n >= 1 halos,
\* exactly round((1 - f1)*n) halos get type 0 and the other n - round((1 -
\* f1)*n) get type 1, f1 being the type-1 fraction function at the midpoint
\* of the bin; every label returned is 0 or 1.
FractionFidelity ==
    outcome = "returned" =>
        Local(CatalogBins, LAMBDA bins :
            Local(CatalogBinIndices, LAMBDA indices :
                /\ DOMAIN halo_types = DOMAIN primary_halo_property
                /\ \A i \in DOMAIN halo_types : halo_types[i] \in {0, 1}
                /\ \A b \in {indices[i] : i \in DOMAIN indices} :
                    LET members == {i \in DOMAIN indices : indices[i] = b}
                        n == Cardinality(members)
                        midpoint == RDiv(RAdd(bins[b + 1], bins[b + 2]), Rat(2, 1))
                        f1 == EvalFraction(halo_type_fraction_function, midpoint)
                        type0 == RoundToInt(RMul(RSub(One, f1), Rat(n, 1)))
                    IN  /\ Cardinality({i \in members : halo_types[i] = 0}) = type0
                        /\ Cardinality({i \in members : halo_types[i] = 1}) = n - type0))

\* Two bins whose midpoints give different fractions: of the two halos of
\* the first both get type 0, the halo of the second gets type 1.
FractionFidelityWitness ==
    /\ outcome = "returned"
    /\ primary_halo_property = <<Zero, One, Rat(3, 1)>>
    /\ halo_type_fraction_function = <<Zero, Rat(1, 4)>>
    /\ bin_spacing = One
    /\ halo_types = <<0, 0, 1>>

\* C10: classifier rank ordering.  Within a bin, every halo of type 0 has a
\* secondary property less than or equal to that of every halo of type 1.
RankOrdering ==
    outcome = "returned" =>
        Local(CatalogBinIndices, LAMBDA indices :
            \A i, j \in DOMAIN halo_types :
                (indices[i] = indices[j] /\ halo_types[i] = 0 /\ halo_types[j] = 1) =>
                    RLe(secondary_halo_property[i], secondary_halo_property[j]))

\* A bin of two halos stored in descending order of the secondary property
\* and split in the middle: the second halo is the one of type 0.
RankOrderingWitness ==
    /\ outcome = "returned"
    /\ primary_halo_property = <<Zero, One, Rat(3, 1)>>
    /\ secondary_halo_property = <<Rat(2, 1), One, One>>
    /\ halo_type_fraction_function = <<Rat(1, 2), Zero>>
    /\ bin_spacing = One
    /\ halo_types = <<1, 0, 0>>

\* C11: classifier binning.  The bins partition [min(primary),
\* max(primary) + epsilon] uniformly with the width bin_spacing: there are
\* (max + epsilon - min)/bin_spacing of them, the count taken to the nearest
\* integer as Nbins is, and every halo lies in exactly one.
BinningMatchesBinSpacing ==
    outcome = "returned" =>
        Local(CatalogBins, LAMBDA bins :
            /\ Len(bins) - 1 = Nbins(primary_halo_property, bin_spacing)
            /\ \A i \in DOMAIN primary_halo_property :
                Cardinality({k \in 1..(Len(bins) - 1) :
                    /\ RLe(bins[k], primary_halo_property[i])
                    /\ RLt(primary_halo_property[i], bins[k + 1])}) = 1)

\* C12: classifier totality.  A call on a non-empty catalog with a positive
\* bin width and a fraction function with values in [0, 1] raises nothing
\* and returns one label in {0, 1} per halo.
ClassifierTotality ==
    /\ outcome # "IndexError"
    /\ outcome = "returned" =>
        /\ Len(halo_types) = Len(primary_halo_property)
        /\ \A i \in DOMAIN halo_types : halo_types[i] \in {0, 1}

-----------------------------------------------------------------------------
(* Properties of solve_for_polynomial_coefficients.                        *)

\* The abcissa of the call are pairwise distinct.
DistinctAbcissa ==
    \A j, k \in DOMAIN abcissa : j # k => abcissa[j] # abcissa[k]

\* C13: polynomial interpolation exactness.  For N pairwise distinct abcissa
\* solve_for_polynomial_coefficients returns N coefficients, element i the
\* coefficient of degree i, and the polynomial they make takes the ordinate
\* y_j at every abcissa x_j.
InterpolationExact ==
    (/\ caller = "solve_for_polynomial_coefficients"
     /\ solver_outcome # "none"
     /\ DistinctAbcissa) =>
        /\ solver_outcome = "returned"
        /\ Len(polynomial_result) = Len(abcissa)
        /\ \A j \in DOMAIN abcissa :
            RSum([i \in DOMAIN polynomial_result |->
                RMul(polynomial_result[i], RPow(abcissa[j], i - 1))]) = ordinates[j]

\* Three control points on a parabola: 0 + (3/2) x - (3/4) x^2.
InterpolationWitness ==
    /\ caller = "solve_for_polynomial_coefficients"
    /\ abcissa = <<Zero, One, Rat(2, 1)>>
    /\ ordinates = <<Zero, Rat(3, 4), Zero>>
    /\ solver_outcome = "returned"
    /\ polynomial_result = <<Zero, Rat(3, 2), Rat(-3, 4)>>

\* C14: a duplicate value in the abcissa makes the call fail with the error
\* of the singular system; no array is returned, and the polynomial models
\* that call the solver let the error through.
DuplicateAbcissaRaises ==
    (solver_outcome # "none" /\ ~DistinctAbcissa) =>
        /\ solver_outcome = "LinAlgError"
        /\ polynomial_result = <<>>

\* A polynomial model called with the same abcissa twice.
DuplicateAbcissaWitness ==
    /\ caller = "quenching_polynomial_model"
    /\ abcissa = <<One, One>>
    /\ ordinates = <<Zero, Rat(3, 4)>>
    /\ solver_outcome = "LinAlgError"

-----------------------------------------------------------------------------
(* Zheng07_HOD_Model: construction.  A dictionary is a function on its set *)
(* of keys; a threshold is None, [int |-> n], [float |-> x] or, for a      *)
(* value that is no number, [str |-> s].                                   *)

\* Table 1 of Zheng et al. 2007, in the order of threshold_array.
logMmin_cen_array ==
    <<Rat(1135, 100), Rat(1146, 100), Rat(116, 10), Rat(1175, 100), Rat(1202, 100),
      Rat(123, 10), Rat(1279, 100), Rat(1338, 100), Rat(1422, 100)>>

sigma_logM_array ==
    <<Rat(25, 100), Rat(24, 100), Rat(26, 100), Rat(28, 100), Rat(26, 100),
      Rat(21, 100), Rat(39, 100), Rat(51, 100), Rat(77, 100)>>

logM0_array ==
    <<Rat(112, 10), Rat(1059, 100), Rat(1149, 100), Rat(1169, 100), Rat(1138, 100),
      Rat(1184, 100), Rat(1192, 100), Rat(1394, 100), Rat(14, 1)>>

logM1_array ==
    <<Rat(124, 10), Rat(1268, 100), Rat(1283, 100), Rat(1301, 100), Rat(1331, 100),
      Rat(1358, 100), Rat(1394, 100), Rat(1391, 100), Rat(1469, 100)>>

alpha_sat_array ==
    <<Rat(83, 100), Rat(97, 100), Rat(102, 100), Rat(106, 100), Rat(106, 100),
      Rat(112, 100), Rat(115, 100), Rat(104, 100), Rat(87, 100)>>

\* np.arange(-22,-17.5,0.5)[::-1]: -18, -18.5, ..., -22.
threshold_array == [k \in DOMAIN logMmin_cen_array |-> Rat(-36 - (k - 1), 2)]

\* isinstance(threshold,int) or isinstance(threshold,float)
IsScalar(t) == "int" \in DOMAIN t \/ "float" \in DOMAIN t

\* float(threshold)
float(t) == IF "int" \in DOMAIN t THEN Rat(t.int, 1) ELSE t.float

\* HOD_Model.__init__: the attributes of a new instance.
HOD_Model_init(parameter_dict_arg, threshold_arg) ==
    [parameter_dict |-> parameter_dict_arg, threshold |-> threshold_arg,
     warnings |-> <<>>]

\* The row of Table 1 at threshold_index.
published_row(threshold_index) ==
    [key \in {"logMmin_cen", "sigma_logM", "logM0_sat", "logM1_sat", "alpha_sat", "fconc"} |->
        CASE key = "logMmin_cen" -> logMmin_cen_array[threshold_index]
          [] key = "sigma_logM" -> sigma_logM_array[threshold_index]
          [] key = "logM0_sat" -> logM0_array[threshold_index]
          [] key = "logM1_sat" -> logM1_array[threshold_index]
          [] key = "alpha_sat" -> alpha_sat_array[threshold_index]
          [] key = "fconc" -> One]

\* Variant: the lookup with -20 as the default threshold.
published_parameters_default_row(self, t) ==
    IF t # None /\ ~IsScalar(t)
    THEN [self |-> self, error |-> "TypeError: scalar", value |-> None]
    ELSE
        LET new_threshold == IF t = None THEN Rat(-20, 1) ELSE float(t)
            after == [self EXCEPT
                         !.threshold = new_threshold,
                         !.warnings = IF t = None
                             THEN Append(@, "HOD threshold unspecified: setting to -19.5")
                             ELSE @]
            threshold_index == {k \in DOMAIN threshold_array :
                                   threshold_array[k] = new_threshold}
        IN  IF Cardinality(threshold_index) = 1
            THEN [self |-> after, error |-> "none",
                  value |-> published_row(CHOOSE k \in threshold_index : TRUE)]
            ELSE [self |-> after, error |-> "TypeError: threshold", value |-> None]

\* Variant: a lookup that answers a threshold it does not know with the
\* row of the nearest one below, and a value that is no number with None.
published_parameters_lenient(self, t) ==
    IF t # None /\ ~IsScalar(t) THEN [self |-> self, error |-> "none", value |-> None]
    ELSE
        LET new_threshold == IF t = None THEN Rat(-39, 2) ELSE float(t)
            at_or_below == {k \in DOMAIN threshold_array :
                               RLe(threshold_array[k], new_threshold)}
        IN  [self |-> [self EXCEPT
                          !.threshold = new_threshold,
                          !.warnings = IF t = None
                              THEN Append(@, "HOD threshold unspecified: setting to -19.5")
                              ELSE @],
             error |-> "none",
             value |-> IF at_or_below = {} THEN published_row(Len(threshold_array))
                       ELSE published_row(CHOOSE k \in at_or_below :
                                              \A j \in at_or_below : k <= j)]

\* Zheng07_HOD_Model.published_parameters: the instance after the call,
\* the error raised and the dictionary returned.
published_parameters(self, t) ==
    IF t # None /\ ~IsScalar(t)
    THEN [self |-> self, error |-> "TypeError: scalar", value |-> None]
    ELSE
        LET new_threshold == IF t = None THEN Rat(-39, 2) ELSE float(t)
            after == [self EXCEPT
                         !.threshold = new_threshold,
                         !.warnings = IF t = None
                             THEN Append(@, "HOD threshold unspecified: setting to -19.5")
                             ELSE @]
            threshold_index == {k \in DOMAIN threshold_array :
                                   threshold_array[k] = new_threshold}
        IN  IF Cardinality(threshold_index) = 1
            THEN [self |-> after, error |-> "none",
                  value |-> published_row(CHOOSE k \in threshold_index : TRUE)]
            ELSE [self |-> after, error |-> "TypeError: threshold", value |-> None]

\* Zheng07_HOD_Model.require_correct_keys: the instance after the call and
\* the error raised.  self.parameter_dict.keys() raises AttributeError on
\* None.
require_correct_keys(self) ==
    Local(published_parameters(self, [int |-> -20]), LAMBDA published :
        IF published.self.parameter_dict = None
        THEN [self |-> published.self, error |-> "AttributeError"]
        ELSE IF DOMAIN published.self.parameter_dict # DOMAIN published.value
        THEN [self |-> published.self, error |-> "TypeError: keys"]
        ELSE [self |-> published.self, error |-> "none"])

\* Zheng07_HOD_Model.__init__: the instance and the error raised.  The
\* call of HOD_Model.__init__ passes no argument on.
Zheng07_HOD_Model(parameter_dict_arg, threshold_arg) ==
    Local(HOD_Model_init(None, None), LAMBDA self :
        IF parameter_dict_arg = None
        THEN Local(published_parameters(self, threshold_arg), LAMBDA published :
                IF published.error # "none"
                THEN [self |-> published.self, error |-> published.error]
                ELSE require_correct_keys(
                         [published.self EXCEPT !.parameter_dict = published.value]))
        ELSE require_correct_keys(self))

\* baseline_hod_model(threshold=threshold) in the constructors of the
\* composite models: the baseline is built from the threshold alone.
baseline_hod_model_instance(threshold_arg) ==
    Zheng07_HOD_Model(None, threshold_arg)

RequiredKeys ==
    {"logMmin_cen", "sigma_logM", "logM0_sat", "logM1_sat", "alpha_sat", "fconc"}

\* The values a caller supplies, none of them a row of Table 1.
SuppliedValue(key) ==
    CASE key = "logMmin_cen" -> Rat(12, 1)
      [] key = "sigma_logM" -> Rat(1, 2)
      [] key = "logM0_sat" -> Rat(11, 1)
      [] key = "logM1_sat" -> Rat(13, 1)
      [] key = "alpha_sat" -> One
      [] OTHER -> Rat(2, 1)

\* Key sets of a supplied dictionary: the required one, one key missing,
\* one key too many, none at all.
SuppliedKeySets ==
    {RequiredKeys, RequiredKeys \cup {"logMmax_cen"}, {}}
        \cup {RequiredKeys \ {key} : key \in RequiredKeys}

ParameterDictArguments ==
    {None} \cup {[key \in keys |-> SuppliedValue(key)] : keys \in SuppliedKeySets}

\* Thresholds: none, the nine published values as floats, the whole ones
\* among them as integers, numbers that are not published, and a string.
ThresholdArguments ==
    {None}
        \cup {[float |-> threshold_array[k]] : k \in DOMAIN threshold_array}
        \cup {[int |-> n] : n \in (-22)..(-18)}
        \cup {[float |-> Rat(-203, 10)], [int |-> 0], [int |-> -23], [str |-> "faint"]}

CompositeClasses ==
    {"Satcen_Correlation_Polynomial_HOD_Model",
     "Polynomial_Assembly_Biased_HOD_Model", "vdB03_Quenching_Model"}

\* The keys of the dictionaries of assembly bias parameters and of
\* quenching parameters.
AssembiasKeys ==
    {"assembias_abcissa", "central_assembias_ordinates",
     "satellite_assembias_ordinates"}

QuenchingKeys ==
    {"quenching_abcissa", "central_quenching_ordinates",
     "satellite_quenching_ordinates"}

\* A dictionary of control points under the keys of the assembly bias
\* parameters, and under those of the quenching parameters.
assembias_parameters(x, central, satellite) ==
    [assembias_abcissa |-> x, central_assembias_ordinates |-> central,
     satellite_assembias_ordinates |-> satellite]

quenching_parameters(x, central, satellite) ==
    [quenching_abcissa |-> x, central_quenching_ordinates |-> central,
     satellite_quenching_ordinates |-> satellite]

\* The control points of the dictionaries of a defaults module: the
\* abcissa, the ordinates for centrals and the ordinates for satellites.
DefaultControlPoints ==
    {<<<<Zero, One>>, <<Zero, Rat(3, 4)>>, <<Rat(3, 4), Zero>>>>,
     <<<<One>>, <<Rat(3, 4)>>, <<Zero>>>>}

\* The defaults module: the dictionaries the classes read from it.
DefaultsModules ==
    {[default_satcen_parameters |-> assembias_parameters(c[1], c[2], c[3]),
      default_assembias_parameters |-> assembias_parameters(c[1], c[3], c[2]),
      default_quenching_parameters |-> quenching_parameters(c[1], c[2], c[3]),
      default_halo_type_split |->
          [halo_type_split_abcissa |-> c[1], halo_type_split_ordinates |-> c[2]]] :
        c \in DefaultControlPoints}

\* dict(first.items() + second.items()): a new dictionary; on a key of
\* both, the value of the second.
merged_parameter_dict(first, second) ==
    [key \in DOMAIN first \cup DOMAIN second |->
        IF key \in DOMAIN second THEN second[key] ELSE first[key]]

\* require_correct_keys of the three composite classes: the error raised.
composite_require_correct_keys(class, module, model_parameter_dict) ==
    LET correct_set_of_keys ==
            IF class = "vdB03_Quenching_Model"
            THEN DOMAIN module.default_quenching_parameters
            ELSE DOMAIN module.default_satcen_parameters
    IN  IF DOMAIN model_parameter_dict # correct_set_of_keys
        THEN "TypeError: keys" ELSE "none"

\* Satcen_Correlation_Polynomial_HOD_Model.__init__ and
\* Polynomial_Assembly_Biased_HOD_Model.__init__: the instance, its baseline
\* instance and the error raised.  The baseline is built from the threshold
\* alone; Assembly_Biased_HOD_Model.__init__ runs HOD_Model.__init__, and the
\* threshold is bound after it.
Assembly_Biased_constructor(class, module, baseline_hod_parameter_dict_arg, threshold_arg, assembias_parameter_dict_arg) ==
    Local(baseline_hod_model_instance(threshold_arg), LAMBDA made :
        IF made.error # "none"
        THEN [self |-> None, baseline |-> made.self, error |-> made.error]
        ELSE
            LET initialised == HOD_Model_init(None, None)
                error == IF assembias_parameter_dict_arg = None THEN "none"
                         ELSE composite_require_correct_keys(class, module,
                                  assembias_parameter_dict_arg)
                assembias_parameter_dict ==
                    IF assembias_parameter_dict_arg # None
                    THEN assembias_parameter_dict_arg
                    ELSE IF class = "Satcen_Correlation_Polynomial_HOD_Model"
                    THEN module.default_satcen_parameters
                    ELSE module.default_assembias_parameters
            IN  IF error # "none"
                THEN [self |-> None, baseline |-> made.self, error |-> error]
                ELSE [self |->
                         [parameter_dict |->
                              merged_parameter_dict(made.self.parameter_dict,
                                                    assembias_parameter_dict),
                          threshold |-> threshold_arg,
                          warnings |-> initialised.warnings,
                          baseline_hod_parameter_dict |-> made.self.parameter_dict,
                          assembias_parameter_dict |-> assembias_parameter_dict],
                      baseline |-> made.self,
                      error |-> "none"])

\* vdB03_Quenching_Model.__init__: the threshold is bound before
\* HOD_Quenching_Model.__init__ runs HOD_Model.__init__, which sets
\* self.parameter_dict and self.threshold to None.
vdB03_Quenching_Model(module, baseline_hod_parameter_dict_arg, threshold_arg, quenching_parameter_dict_arg) ==
    Local(baseline_hod_model_instance(threshold_arg), LAMBDA made :
        IF made.error # "none"
        THEN [self |-> None, baseline |-> made.self, error |-> made.error]
        ELSE
            LET initialised == HOD_Model_init(None, None)
                error == IF quenching_parameter_dict_arg = None THEN "none"
                         ELSE composite_require_correct_keys("vdB03_Quenching_Model",
                                  module, quenching_parameter_dict_arg)
                quenching_parameter_dict ==
                    IF quenching_parameter_dict_arg # None
                    THEN quenching_parameter_dict_arg
                    ELSE module.default_quenching_parameters
            IN  IF error # "none"
                THEN [self |-> None, baseline |-> made.self, error |-> error]
                ELSE [self |->
                         [parameter_dict |->
                              merged_parameter_dict(made.self.parameter_dict,
                                                    quenching_parameter_dict),
                          threshold |-> initialised.threshold,
                          warnings |-> initialised.warnings,
                          baseline_hod_parameter_dict |-> made.self.parameter_dict,
                          quenching_parameter_dict |-> quenching_parameter_dict],
                      baseline |-> made.self,
                      error |-> "none"])

\* The constructor of the composite class.
composite_constructor(class, module, baseline_hod_parameter_dict_arg, threshold_arg, model_parameter_dict_arg) ==
    IF class = "vdB03_Quenching_Model"
    THEN vdB03_Quenching_Model(module, baseline_hod_parameter_dict_arg,
                               threshold_arg, model_parameter_dict_arg)
    ELSE Assembly_Biased_constructor(class, module, baseline_hod_parameter_dict_arg,
                                     threshold_arg, model_parameter_dict_arg)

\* The dictionaries of assembly bias or quenching parameters a caller
\* supplies: none, one with the keys of the class, one with a key missing.
ModelParameterDictArguments(class) ==
    IF class = "Zheng07_HOD_Model" THEN {None}
    ELSE IF class = "vdB03_Quenching_Model"
    THEN {None,
          quenching_parameters(<<Zero, Rat(2, 1)>>, <<Rat(3, 4), Zero>>, <<Zero, Zero>>),
          [quenching_abcissa |-> <<Zero>>, central_quenching_ordinates |-> <<Zero>>]}
    ELSE {None,
          assembias_parameters(<<Zero, Rat(2, 1)>>, <<Rat(3, 4), Zero>>, <<Zero, Zero>>),
          [assembias_abcissa |-> <<Zero>>, central_assembias_ordinates |-> <<Zero>>]}

\* The constructor called and its arguments.
InitConstructor ==
    /\ EngineIdle
    /\ CalculatorIdle
    /\ SolverIdle
    /\ OccupationIdle
    /\ constructed_class \in {"Zheng07_HOD_Model"} \cup CompositeClasses
    /\ parameter_dict_argument \in
        IF constructed_class = "Zheng07_HOD_Model" THEN ParameterDictArguments
        ELSE {None, [key \in RequiredKeys |-> SuppliedValue(key)]}
    /\ threshold_argument \in ThresholdArguments
    /\ construction = "none"
    /\ parameter_dict = None
    /\ threshold = None
    /\ warnings = <<>>
    /\ defaults \in DefaultsModules
    /\ model_parameter_dict_argument \in ModelParameterDictArguments(constructed_class)
    /\ composite = None
    /\ composite_method = "none"
    /\ composite_primary_halo_property = <<>>
    /\ composite_halo_type = <<>>
    /\ composite_result = <<>>

\* Zheng07_HOD_Model(parameter_dict, threshold).  A call that raises
\* produces no instance; the warnings it emitted stay emitted.
ConstructZheng07 ==
    /\ constructed_class = "Zheng07_HOD_Model"
    /\ construction = "none"
    /\ LET call == Zheng07_HOD_Model(parameter_dict_argument, threshold_argument)
       IN  /\ construction' = IF call.error = "none" THEN "instance" ELSE call.error
           /\ parameter_dict' = IF call.error = "none" THEN call.self.parameter_dict ELSE None
           /\ threshold' = IF call.error = "none" THEN call.self.threshold ELSE None
           /\ warnings' = call.self.warnings
    /\ UNCHANGED <<constructed_class, parameter_dict_argument, threshold_argument>>
    /\ UNCHANGED <<engineVars, calculatorVars, solverVars, occupationVars,
                   compositeVars>>

\* The constructor of a composite model.  An error of the baseline's
\* constructor or of the validation of the keys is not caught; a call that
\* raises produces no instance.  parameter_dict and threshold are the
\* attributes of the baseline instance the composite holds.
ConstructComposite ==
    /\ constructed_class \in CompositeClasses
    /\ construction = "none"
    /\ LET call == composite_constructor(constructed_class, defaults,
                       parameter_dict_argument, threshold_argument,
                       model_parameter_dict_argument)
       IN  /\ construction' = IF call.error = "none" THEN "instance" ELSE call.error
           /\ parameter_dict' =
                IF call.error = "none" THEN call.baseline.parameter_dict ELSE None
           /\ threshold' = IF call.error = "none" THEN call.baseline.threshold ELSE None
           /\ warnings' = call.baseline.warnings
           /\ composite' = call.self
    /\ UNCHANGED <<constructed_class, parameter_dict_argument, threshold_argument>>
    /\ UNCHANGED <<defaults, model_parameter_dict_argument, composite_method,
                   composite_primary_halo_property, composite_halo_type,
                   composite_result>>
    /\ UNCHANGED <<engineVars, calculatorVars, solverVars, occupationVars>>

NextConstructor ==
    \/ ConstructZheng07
    \/ ConstructComposite

SpecConstructor == InitConstructor /\ [][NextConstructor]_vars

-----------------------------------------------------------------------------
(* Properties of the construction of Zheng07_HOD_Model.                    *)

\* The threshold of the call is a number of Table 1.
PublishedThreshold ==
    /\ threshold_argument # None
    /\ IsScalar(threshold_argument)
    /\ \E k \in DOMAIN threshold_array : threshold_array[k] = float(threshold_argument)

\* C15: a parameter_dict whose key set is not the required one (a key
\* missing, a key too many, no key) makes the construction of
\* Zheng07_HOD_Model fail with the error of the key-set validation of
\* require_correct_keys, and no instance is made.
WrongKeySetFailsValidation ==
    (/\ constructed_class = "Zheng07_HOD_Model"
     /\ construction # "none"
     /\ parameter_dict_argument # None
     /\ DOMAIN parameter_dict_argument # RequiredKeys) =>
        /\ construction = "TypeError: keys"
        /\ parameter_dict = None

\* C16: a parameter_dict with exactly the required keys makes the
\* construction succeed, and the instance's parameter_dict holds the values
\* supplied.
RequiredKeySetConstructs ==
    (/\ constructed_class = "Zheng07_HOD_Model"
     /\ construction # "none"
     /\ parameter_dict_argument # None
     /\ DOMAIN parameter_dict_argument = RequiredKeys) =>
        /\ construction = "instance"
        /\ parameter_dict = parameter_dict_argument

\* C17: a threshold that is a number outside Table 1, or no number, makes
\* the construction of Zheng07_HOD_Model and of the models built on it fail
\* with an error; no instance is made, with whatever parameter_dict.
UnpublishedThresholdFails ==
    (/\ construction # "none"
     /\ threshold_argument # None
     /\ ~PublishedThreshold) =>
        /\ construction \in {"TypeError: scalar", "TypeError: threshold",
                             "TypeError: keys", "AttributeError"}
        /\ parameter_dict = None
        /\ threshold = None

\* A composite model built with a threshold between two published ones.
UnpublishedThresholdWitness ==
    /\ constructed_class = "vdB03_Quenching_Model"
    /\ threshold_argument = [float |-> Rat(-203, 10)]
    /\ construction = "TypeError: threshold"
    /\ parameter_dict = None

-----------------------------------------------------------------------------
(* Zheng07_HOD_Model: the occupation methods, and vdB03_Quenching_Model    *)
(* delegating to them.  Masses are exact: the logarithms the methods are   *)
(* evaluated with are whole numbers and alpha_sat is a natural number.     *)

\* 10.**x for a whole number x.
power_of_ten(x) ==
    IF x[1] >= 0 THEN RPow(Rat(10, 1), x[1])
    ELSE RDiv(One, RPow(Rat(10, 1), -x[1]))

\* scipy.special.erf, tabulated to four decimals at 0, 1/2, 1, 2 and 3;
\* between two entries it takes the value of the lower one.  It is odd.
erf_table ==
    <<<<Zero, Zero>>, <<Rat(1, 2), Rat(5205, 10000)>>, <<One, Rat(8427, 10000)>>,
      <<Rat(2, 1), Rat(9953, 10000)>>, <<Rat(3, 1), One>>>>

erf(z) ==
    LET entry == CHOOSE k \in DOMAIN erf_table :
                    /\ RLe(erf_table[k][1], RAbs(z))
                    /\ \A j \in DOMAIN erf_table :
                        RLe(erf_table[j][1], RAbs(z)) => j <= k
    IN  IF RLt(z, Zero) THEN RSub(Zero, erf_table[entry][2]) ELSE erf_table[entry][2]

\* Variant: centrals in halos of type 1 only.
Zheng07_mean_ncen_of_type1(pd, logM_arg, halo_type_arg) ==
    array([i \in DOMAIN logM_arg |->
        IF halo_type_arg[i] = 0 THEN Zero
        ELSE RMul(Rat(1, 2),
                  RAdd(One, erf(RDiv(RSub(logM_arg[i], pd.logMmin_cen), pd.sigma_logM))))])

\* Zheng07_HOD_Model.mean_ncen: 0.5*(1 + erf((logM - logMmin_cen)/sigma_logM)).
Zheng07_mean_ncen(pd, logM_arg, halo_type_arg) ==
    array([i \in DOMAIN logM_arg |->
        RMul(Rat(1, 2),
             RAdd(One, erf(RDiv(RSub(logM_arg[i], pd.logMmin_cen), pd.sigma_logM))))])

\* The entries of x at the positions idx, in order.
Take(x, idx) == array([k \in DOMAIN idx |-> x[idx[k]]])

\* Variant: the power law applied to every halo, without the floor at M0.
Zheng07_mean_nsat_without_floor(pd, logM_arg, halo_type_arg) ==
    Local(Zheng07_mean_ncen(pd, logM_arg, halo_type_arg), LAMBDA ncen :
        array([i \in DOMAIN logM_arg |->
            RMul(ncen[i],
                 RPow(RDiv(RSub(power_of_ten(logM_arg[i]), power_of_ten(pd.logM0_sat)),
                           power_of_ten(pd.logM1_sat)),
                      pd.alpha_sat[1]))]))

\* Zheng07_HOD_Model.mean_nsat: zeros, overwritten where halo_mass - M0 > 0
\* by mean_ncen of those halos times ((halo_mass - M0)/M1)**alpha_sat.
Zheng07_mean_nsat(pd, logM_arg, halo_type_arg) ==
    LET M0 == power_of_ten(pd.logM0_sat)
        M1 == power_of_ten(pd.logM1_sat)
        idx_nonzero_satellites ==
            SelectSeq([i \in DOMAIN logM_arg |-> i],
                      LAMBDA i : RGt(RSub(power_of_ten(logM_arg[i]), M0), Zero))
    IN  Local(Zheng07_mean_ncen(pd, Take(logM_arg, idx_nonzero_satellites),
                                Take(halo_type_arg, idx_nonzero_satellites)),
              LAMBDA ncen :
        array([i \in DOMAIN logM_arg |->
            IF \E k \in DOMAIN idx_nonzero_satellites : idx_nonzero_satellites[k] = i
            THEN LET k == CHOOSE k \in DOMAIN idx_nonzero_satellites :
                              idx_nonzero_satellites[k] = i
                 IN  RMul(ncen[k],
                          RPow(RDiv(RSub(power_of_ten(logM_arg[i]), M0), M1),
                               pd.alpha_sat[1]))
            ELSE Zero]))

\* anatoly_concentration: c0*(masses/Mpiv)**a with c0 = 9.6, Mpiv = 1.e12
\* and a = -0.075.  A concentration is kept as c0 and the decimal logarithm
\* of the factor it is multiplied by, a*(logM - 12).
anatoly_concentration(logM_arg) ==
    array([i \in DOMAIN logM_arg |->
        [c0 |-> Rat(96, 10),
         log10_factor |-> RMul(Rat(-75, 1000), RSub(logM_arg[i], Rat(12, 1)))]])

\* Zheng07_HOD_Model.mean_concentration
Zheng07_mean_concentration(pd, logM_arg, halo_type_arg) ==
    anatoly_concentration(logM_arg)

\* vdB03_Quenching_Model.mean_ncen, mean_nsat and mean_concentration hand
\* their arguments to the baseline model.
vdB03_mean_ncen(pd, logM_arg, halo_type_arg) ==
    Zheng07_mean_ncen(pd, logM_arg, halo_type_arg)

vdB03_mean_nsat(pd, logM_arg, halo_type_arg) ==
    Zheng07_mean_nsat(pd, logM_arg, halo_type_arg)

vdB03_mean_concentration(pd, logM_arg, halo_type_arg) ==
    Zheng07_mean_concentration(pd, logM_arg, halo_type_arg)

\* The method of the class of the instance.
occupation_call(class, name, pd, logM_arg, halo_type_arg) ==
    CASE class = "Zheng07_HOD_Model" /\ name = "mean_ncen" ->
            Zheng07_mean_ncen(pd, logM_arg, halo_type_arg)
      [] class = "Zheng07_HOD_Model" /\ name = "mean_nsat" ->
            Zheng07_mean_nsat(pd, logM_arg, halo_type_arg)
      [] class = "Zheng07_HOD_Model" /\ name = "mean_concentration" ->
            Zheng07_mean_concentration(pd, logM_arg, halo_type_arg)
      [] class = "vdB03_Quenching_Model" /\ name = "mean_ncen" ->
            vdB03_mean_ncen(pd, logM_arg, halo_type_arg)
      [] class = "vdB03_Quenching_Model" /\ name = "mean_nsat" ->
            vdB03_mean_nsat(pd, logM_arg, halo_type_arg)
      [] class = "vdB03_Quenching_Model" /\ name = "mean_concentration" ->
            vdB03_mean_concentration(pd, logM_arg, halo_type_arg)

\* Parameters the occupation methods are evaluated with: the values of
\* self.parameter_dict (the baseline's, for vdB03_Quenching_Model) at the
\* time of the call.
EvaluatedParameterDicts ==
    {[logMmin_cen |-> One, sigma_logM |-> s, logM0_sat |-> m0, logM1_sat |-> One,
      alpha_sat |-> a, fconc |-> One] :
        s \in {Rat(1, 2), One}, m0 \in {Zero, One}, a \in {One, Rat(2, 1)}}

\* Values of log10 of the halo mass.
LogMValues == {Zero, One, Rat(2, 1)}

\* An instance, and the batch an occupation method is called with.
InitOccupation ==
    /\ CompositeIdle
    /\ EngineIdle
    /\ CalculatorIdle
    /\ SolverIdle
    /\ constructed_class \in {"Zheng07_HOD_Model", "vdB03_Quenching_Model"}
    /\ parameter_dict_argument = None
    /\ threshold_argument = None
    /\ construction = "instance"
    /\ parameter_dict \in EvaluatedParameterDicts
    /\ threshold = None
    /\ warnings = <<>>
    /\ \E n \in BatchSizes :
        /\ logM \in [1..n -> LogMValues]
        /\ logM_halo_type \in [1..n -> HaloTypes]
    /\ occupation_method = "none"
    /\ occupation = <<>>

CallOccupationMeanNcen ==
    /\ construction = "instance"
    /\ occupation_method = "none"
    /\ occupation_method' = "mean_ncen"
    /\ occupation' = occupation_call(constructed_class, "mean_ncen", parameter_dict,
                                     logM, logM_halo_type)
    /\ UNCHANGED <<logM, logM_halo_type>>
    /\ UNCHANGED <<engineVars, calculatorVars, solverVars, constructorVars,
                   compositeVars>>

CallOccupationMeanNsat ==
    /\ construction = "instance"
    /\ occupation_method = "none"
    /\ occupation_method' = "mean_nsat"
    /\ occupation' = occupation_call(constructed_class, "mean_nsat", parameter_dict,
                                     logM, logM_halo_type)
    /\ UNCHANGED <<logM, logM_halo_type>>
    /\ UNCHANGED <<engineVars, calculatorVars, solverVars, constructorVars,
                   compositeVars>>

CallOccupationMeanConcentration ==
    /\ construction = "instance"
    /\ occupation_method = "none"
    /\ occupation_method' = "mean_concentration"
    /\ occupation' = occupation_call(constructed_class, "mean_concentration",
                                     parameter_dict, logM, logM_halo_type)
    /\ UNCHANGED <<logM, logM_halo_type>>
    /\ UNCHANGED <<engineVars, calculatorVars, solverVars, constructorVars,
                   compositeVars>>

NextOccupation ==
    \/ CallOccupationMeanNcen
    \/ CallOccupationMeanNsat
    \/ CallOccupationMeanConcentration

SpecOccupation == InitOccupation /\ [][NextOccupation]_vars

-----------------------------------------------------------------------------
(* Properties of the occupation methods of Zheng07_HOD_Model.              *)

\* C19: satellite hard floor.  Where 10^p <= M0 = 10^logM0_sat, that is
\* where p <= logM0_sat, Zheng07_HOD_Model.mean_nsat is exactly 0; where
\* 10^p > M0 it is mean_ncen(p) * ((10^p - M0)/M1)^alpha_sat; it is never
\* negative.
SatelliteHardFloor ==
    (constructed_class = "Zheng07_HOD_Model" /\ occupation_method = "mean_nsat") =>
        /\ Len(occupation) = Len(logM)
        /\ \A i \in DOMAIN logM :
            LET M0 == power_of_ten(parameter_dict.logM0_sat)
                M1 == power_of_ten(parameter_dict.logM1_sat)
                mass == power_of_ten(logM[i])
                ncen == RMul(Rat(1, 2),
                             RAdd(One, erf(RDiv(RSub(logM[i], parameter_dict.logMmin_cen),
                                                parameter_dict.sigma_logM))))
            IN  /\ RLe(mass, M0) <=> RLe(logM[i], parameter_dict.logM0_sat)
                /\ RLe(mass, M0) => occupation[i] = Zero
                /\ RGt(mass, M0) =>
                    occupation[i] =
                        RMul(ncen, RPow(RDiv(RSub(mass, M0), M1),
                                        parameter_dict.alpha_sat[1]))
                /\ RGe(occupation[i], Zero)

\* A halo at the floor and a halo above it: 0, and
\* mean_ncen(2) * ((100 - 10)/10)^1 with mean_ncen(2) = (1 + erf(1))/2.
SatelliteHardFloorWitness ==
    /\ constructed_class = "Zheng07_HOD_Model"
    /\ occupation_method = "mean_nsat"
    /\ parameter_dict.logM0_sat = One
    /\ parameter_dict.sigma_logM = One
    /\ parameter_dict.alpha_sat = One
    /\ logM = <<One, Rat(2, 1)>>
    /\ occupation = <<Zero, RMul(Rat(18427, 20000), Rat(9, 1))>>

\* C20: the halo type argument is ignored by the models without assembly
\* bias.  Zheng07_HOD_Model, and vdB03_Quenching_Model delegating to it,
\* return the same mean_ncen, mean_nsat and mean_concentration for a batch
\* whatever array of halo types of its length comes with it.
HaloTypeIgnored ==
    occupation_method # "none" =>
        \A other_halo_type \in [DOMAIN logM -> HaloTypes] :
            occupation_call(constructed_class, occupation_method, parameter_dict,
                            logM, other_halo_type) = occupation

\* vdB03_Quenching_Model.mean_nsat on two halos of the same mass and of
\* different types: the same positive value for both.
HaloTypeIgnoredWitness ==
    /\ constructed_class = "vdB03_Quenching_Model"
    /\ occupation_method = "mean_nsat"
    /\ logM = <<Rat(2, 1), Rat(2, 1)>>
    /\ logM_halo_type = <<0, 1>>
    /\ occupation[1] = occupation[2]
    /\ RGt(occupation[1], Zero)

-----------------------------------------------------------------------------
(* Limits and fixed points of the destruction functions.                   *)

\* The type-1 fraction function is identically 1 or identically 0 on the
\* batch.
TrivialFraction ==
    \/ \A i \in Halos : type1_fraction[i] = One
    \/ \A i \in Halos : type1_fraction[i] = Zero

\* C24: if the type-1 fraction function is identically 1 or identically 0,
\* then for every primary property and whichever halo type label (0 or 1) is
\* passed, mean_ncen equals the baseline mean_ncen and mean_nsat equals the
\* baseline mean_nsat, whatever the unconstrained destruction function.
TrivialFractionGivesBaseline ==
    (method \in {"mean_ncen", "mean_nsat"} /\ TrivialFraction) =>
        \A i \in Halos : result[i] = baseline[i]

\* The ceiling of the called destruction function for type-1 halos.
Type1Ceiling ==
    IF method = "destruction_centrals"
    THEN maximum_destruction_centrals(type1_fraction, baseline,
                                      all_ones(unconstrained))
    ELSE maximum_destruction_satellites(type1_fraction, all_ones(unconstrained))

\* output_destruction_allhalos of the called destruction function before the
\* type-0 branch.
Conditioned ==
    IF method = "destruction_centrals"
    THEN conditioned_centrals(unconstrained, type1_fraction, baseline)
    ELSE conditioned_satellites(unconstrained, type1_fraction)

\* C25: fixed point of the clamp.  For a type-1 halo where the type-1
\* fraction is below 1 and the unconstrained value lies between 0 and the
\* ceiling, the value returned is the unconstrained value; and the floor, the
\* ceiling and the override applied to the clamped array return that array.
ClampFixedPoint ==
    Destruction =>
        /\ \A i \in Halos :
            ( /\ halo_type[i] = 1
              /\ RLt(type1_fraction[i], One)
              /\ RGe(unconstrained[i], Zero)
              /\ RLe(unconstrained[i], Type1Ceiling[i]) ) =>
                result[i] = unconstrained[i]
        /\ apply_constraints(Conditioned, Type1Ceiling, type1_fraction)
            = Conditioned

\* A type-1 halo with the unconstrained value 1/2 strictly inside [0, 2],
\* beside a halo whose unconstrained value was clamped.
ClampFixedPointWitness ==
    /\ method = "destruction_centrals"
    /\ Len(result) = 2
    /\ halo_type = <<1, 1>>
    /\ type1_fraction = <<Rat(1, 2), Rat(1, 2)>>
    /\ baseline = <<Rat(1, 4), One>>
    /\ unconstrained = <<Rat(1, 2), Rat(5, 1)>>
    /\ Type1Ceiling = <<Rat(2, 1), One>>
    /\ result = <<Rat(1, 2), One>>

\* The value destruction_satellites returns where the unconstrained value
\* is D, the type-1 fraction F1 and the halo type h.
SatelliteValue(D, F1, h) ==
    LET d1 == IF F1 = One THEN One
              ELSE IF F1 = Zero THEN Zero
              ELSE RMin(RMax(D, Zero), RDiv(One, F1))
    IN  IF h = 1 THEN d1
        ELSE IF F1 = One THEN Zero
        ELSE RDiv(RSub(One, RMul(d1, F1)), RSub(One, F1))

\* C26: satellite asymmetry.  The satellite ceiling is 1/F1 alone (0 where
\* F1 = 0); destruction_satellites is a function of the unconstrained value,
\* the type-1 fraction and the halo type alone, so any two baselines give
\* the same destruction values, and the baseline mean_nsat enters mean_nsat
\* only as the factor of the product.
SatelliteAsymmetry ==
    /\ method = "destruction_satellites" =>
        /\ baseline = <<>>
        /\ \A i \in Halos :
            result[i] = SatelliteValue(unconstrained[i], type1_fraction[i],
                                       halo_type[i])
    /\ method = "mean_nsat" =>
        /\ \A i \in Halos :
            result[i] = RMul(SatelliteValue(unconstrained[i], type1_fraction[i],
                                            halo_type[i]),
                             baseline[i])
        /\ \A k \in DOMAIN NsatValues :
            LET other == [i \in Halos |-> NsatValues[k]]
                values == mean_nsat(unconstrained, type1_fraction, other,
                                    halo_type)
            IN  \A i \in Halos :
                    values[i] = RMul(SatelliteValue(unconstrained[i],
                                        type1_fraction[i], halo_type[i]),
                                     NsatValues[k])

\* A type-1 halo whose satellite destruction value 2 exceeds 1/mean_nsat =
\* 1/3: the conditioned mean is 6.
SatelliteAsymmetryWitness ==
    /\ method = "mean_nsat"
    /\ \E i \in Halos :
        /\ halo_type[i] = 1
        /\ type1_fraction[i] = Rat(1, 2)
        /\ unconstrained[i] = Rat(5, 1)
        /\ baseline[i] = Rat(3, 1)
        /\ RGt(RDiv(result[i], baseline[i]), RDiv(One, baseline[i]))
        /\ result[i] = Rat(6, 1)

-----------------------------------------------------------------------------
(* Assembly_Biased_HOD_Model with an unconstrained destruction function    *)
(* that is identically 1 or identically 0.                                 *)

\* The two constant unconstrained destruction functions of the docstrings of
\* unconstrained_central_destruction_halo_type1 and
\* unconstrained_satellite_destruction_halo_type1.
IdenticalValues == {Zero, One}

\* The batches over the grid of the type-1 fraction and the baseline.
IdenticalBatches(n) ==
    {p \in Batches(n) :
        \A i \in 1..n : p[i] <= Len(FractionValues) * Len(NcenValues)}

CallDestructionCentralsIdentical ==
    /\ method = "none"
    /\ \E n \in BatchSizes :
        \E p \in IdenticalBatches(n) :
            \E c \in IdenticalValues :
                /\ halo_type' \in [1..n -> HaloTypes]
                /\ type1_fraction' = [i \in 1..n |-> FractionAt(p[i])]
                /\ baseline' = [i \in 1..n |-> NcenAt(p[i])]
                /\ unconstrained' = [i \in 1..n |-> c]
    /\ method' = "destruction_centrals"
    /\ result' = destruction_centrals(unconstrained', type1_fraction', baseline',
                                      halo_type')
    /\ UNCHANGED <<calculatorVars, solverVars, constructorVars, occupationVars,
                   compositeVars>>

CallDestructionSatellitesIdentical ==
    /\ method = "none"
    /\ \E n \in BatchSizes :
        \E p \in IdenticalBatches(n) :
            \E c \in IdenticalValues :
                /\ halo_type' \in [1..n -> HaloTypes]
                /\ type1_fraction' = [i \in 1..n |-> FractionAt(p[i])]
                /\ unconstrained' = [i \in 1..n |-> c]
    /\ baseline' = <<>>
    /\ method' = "destruction_satellites"
    /\ result' = destruction_satellites(unconstrained', type1_fraction', halo_type')
    /\ UNCHANGED <<calculatorVars, solverVars, constructorVars, occupationVars,
                   compositeVars>>

CallMeanNcenIdentical ==
    /\ method = "none"
    /\ \E n \in BatchSizes :
        \E p \in IdenticalBatches(n) :
            \E c \in IdenticalValues :
                /\ halo_type' \in [1..n -> HaloTypes]
                /\ type1_fraction' = [i \in 1..n |-> FractionAt(p[i])]
                /\ baseline' = [i \in 1..n |-> NcenAt(p[i])]
                /\ unconstrained' = [i \in 1..n |-> c]
    /\ method' = "mean_ncen"
    /\ result' = mean_ncen(unconstrained', type1_fraction', baseline', halo_type')
    /\ UNCHANGED <<calculatorVars, solverVars, constructorVars, occupationVars,
                   compositeVars>>

CallMeanNsatIdentical ==
    /\ method = "none"
    /\ \E n \in BatchSizes :
        \E p \in IdenticalBatches(n) :
            \E c \in IdenticalValues :
                /\ halo_type' \in [1..n -> HaloTypes]
                /\ type1_fraction' = [i \in 1..n |-> FractionAt(p[i])]
                /\ baseline' = [i \in 1..n |-> NsatAt(p[i])]
                /\ unconstrained' = [i \in 1..n |-> c]
    /\ method' = "mean_nsat"
    /\ result' = mean_nsat(unconstrained', type1_fraction', baseline', halo_type')
    /\ UNCHANGED <<calculatorVars, solverVars, constructorVars, occupationVars,
                   compositeVars>>

NextIdentical ==
    \/ CallDestructionCentralsIdentical
    \/ CallDestructionSatellitesIdentical
    \/ CallMeanNcenIdentical
    \/ CallMeanNsatIdentical

SpecIdentical == Init /\ [][NextIdentical]_vars

\* C23: if the unconstrained type-1 destruction function is identically 1 or
\* identically 0, then wherever the type-1 fraction lies strictly between 0
\* and 1 the destruction functions return 1 for both halo types, and mean_ncen
\* returns the baseline mean_ncen.
IdenticalUnconstrainedGivesNoBias ==
    (\E c \in IdenticalValues : \A i \in Halos : unconstrained[i] = c) =>
        \A i \in Halos :
            (RGt(type1_fraction[i], Zero) /\ RLt(type1_fraction[i], One)) =>
                /\ Destruction => result[i] = One
                /\ method = "mean_ncen" => result[i] = baseline[i]

-----------------------------------------------------------------------------
(* halo_type_calculator followed by destruction_centrals on the catalog    *)
(* and the halo types it returned.                                         *)

\* Constant type-1 fraction functions with a value strictly inside (0, 1).
ConstantFractions == {<<Rat(3, 10), Zero>>, <<Rat(1, 2), Zero>>}

\* A catalog whose secondary halo property ascends with the position in the
\* array, and a constant type-1 fraction function.
InitEndToEnd ==
    /\ CompositeIdle
    /\ EngineIdle
    /\ outcome = "none"
    /\ \E n \in 1..MaxHalos :
        /\ primary_halo_property \in [1..n -> PrimaryValues]
        /\ secondary_halo_property = [i \in 1..n |-> Rat(i, 1)]
    /\ halo_type_fraction_function \in ConstantFractions
    /\ bin_spacing \in BinSpacings
    /\ halo_types = <<>>
    /\ SolverIdle
    /\ ConstructorIdle
    /\ OccupationIdle

\* destruction_centrals on the catalog, with the halo types the calculator
\* returned, the type-1 fraction function the calculator was given, and a
\* constant unconstrained destruction function and baseline.
DestructionCentralsOfCatalog ==
    /\ outcome = "returned"
    /\ method = "none"
    /\ halo_type' = halo_types
    /\ type1_fraction' =
        [i \in DOMAIN primary_halo_property |->
            EvalFraction(halo_type_fraction_function, primary_halo_property[i])]
    /\ \E d \in DOMAIN UnconstrainedValues :
        unconstrained' = [i \in DOMAIN primary_halo_property |-> UnconstrainedValues[d]]
    /\ \E k \in DOMAIN NcenValues :
        baseline' = [i \in DOMAIN primary_halo_property |-> NcenValues[k]]
    /\ method' = "destruction_centrals"
    /\ result' = destruction_centrals(unconstrained', type1_fraction', baseline',
                                      halo_type')
    /\ UNCHANGED <<calculatorVars, solverVars, constructorVars, occupationVars,
                   compositeVars>>

NextEndToEnd ==
    \/ HaloTypeCalculatorRaises
    \/ HaloTypeCalculatorReturns
    \/ DestructionCentralsOfCatalog

SpecEndToEnd == InitEndToEnd /\ [][NextEndToEnd]_vars

\* C27: end-to-end preservation of the baseline mean.  After the catalog is
\* classified with a constant type-1 fraction f in (0, 1) and the destruction
\* function evaluated with the same f and a constant unconstrained value, in
\* every bin holding n halos the destruction values of the halos of the bin
\* sum to n: (n1*d1 + n0*d0)/n = 1, whatever n is.
BinAveragePreserved ==
    (outcome = "returned" /\ method = "destruction_centrals") =>
        \A b \in {CatalogBinIndices[i] : i \in DOMAIN CatalogBinIndices} :
            LET members == halos_with_bin_index(CatalogBinIndices, b)
            IN  RSum([k \in DOMAIN members |-> result[members[k]]])
                    = Rat(Len(members), 1)

-----------------------------------------------------------------------------
(* Properties of the attributes the constructors bind.                     *)

\* The dictionary of assembly bias or quenching parameters of the composite
\* instance.
ModelParameterDict ==
    IF constructed_class = "vdB03_Quenching_Model"
    THEN composite.quenching_parameter_dict
    ELSE composite.assembias_parameter_dict

\* C29: the threshold attribute records the requested threshold.  After
\* Zheng07_HOD_Model or vdB03_Quenching_Model is constructed with one of the
\* nine published thresholds t, the threshold of the instance is t and the
\* parameters held are the row of Table 1 at t; require_correct_keys and
\* the initialiser of the base class leave the threshold as requested.
ThresholdRecordsRequest ==
    ( /\ construction = "instance"
      /\ constructed_class \in {"Zheng07_HOD_Model", "vdB03_Quenching_Model"}
      /\ PublishedThreshold ) =>
        LET recorded == IF constructed_class = "Zheng07_HOD_Model"
                        THEN threshold ELSE composite.threshold
        IN  /\ recorded # None
            /\ recorded = float(threshold_argument)
            /\ \E k \in DOMAIN threshold_array :
                /\ threshold_array[k] = float(threshold_argument)
                /\ parameter_dict = published_row(k)

\* C30: a composite model constructed with a baseline_hod_parameter_dict
\* builds its baseline with those parameters: the parameter_dict of the
\* baseline and the baseline_hod_parameter_dict of the composite are the
\* supplied dictionary, and the merged parameter_dict holds its values under
\* every key the assembly bias or quenching dictionary does not hold.
BaselineBuiltFromSuppliedParameters ==
    ( /\ constructed_class \in CompositeClasses
      /\ construction = "instance"
      /\ parameter_dict_argument # None ) =>
        /\ parameter_dict = parameter_dict_argument
        /\ composite.baseline_hod_parameter_dict = parameter_dict_argument
        /\ \A key \in DOMAIN parameter_dict_argument :
            /\ key \in DOMAIN composite.parameter_dict
            /\ composite.parameter_dict[key] =
                IF key \in DOMAIN ModelParameterDict
                THEN ModelParameterDict[key] ELSE parameter_dict_argument[key]

-----------------------------------------------------------------------------
(* The methods of an instance of a composite model.                        *)

\* np.zeros(len(x)) + 1 as an array of floats.
unit_array(x) == array([i \in DOMAIN x |-> One])

\* Satcen_Correlation_Polynomial_HOD_Model.halo_type1_fraction_centrals:
\* centrals exhibit no assembly bias, the fraction is unity.
Satcen_halo_type1_fraction_centrals(primary) ==
    [error |-> "none", value |-> unit_array(primary)]

\* Satcen_Correlation_Polynomial_HOD_Model.halo_type1_fraction_satellites:
\* the baseline mean_ncen, called with halo types that are all 1.
Satcen_halo_type1_fraction_satellites(baseline_parameter_dict, primary) ==
    [error |-> "none",
     value |-> Zheng07_mean_ncen(baseline_parameter_dict, primary, all_ones(primary))]

\* Variant: the polynomial through the control points of the split, as it is.
Polynomial_halo_type1_fraction_centrals_unclamped(module, primary) ==
    unconstrained_polynomial_model(
        module.default_halo_type_split.halo_type_split_abcissa,
        module.default_halo_type_split.halo_type_split_ordinates, primary)

\* Polynomial_Assembly_Biased_HOD_Model.halo_type1_fraction_centrals: the
\* polynomial through the control points of defaults.default_halo_type_split,
\* set to 0 where negative and to 1 where above 1.
Polynomial_halo_type1_fraction_centrals(module, primary) ==
    Local(unconstrained_polynomial_model(
              module.default_halo_type_split.halo_type_split_abcissa,
              module.default_halo_type_split.halo_type_split_ordinates, primary),
          LAMBDA output_fraction :
        IF output_fraction.error # "none" THEN output_fraction
        ELSE [error |-> "none",
              value |-> array([i \in DOMAIN primary |->
                  IF RLt(output_fraction.value[i], Zero) THEN Zero
                  ELSE IF RGt(output_fraction.value[i], One) THEN One
                  ELSE output_fraction.value[i]])])

\* Polynomial_Assembly_Biased_HOD_Model.halo_type1_fraction_satellites
Polynomial_halo_type1_fraction_satellites(module, primary) ==
    Local(unconstrained_polynomial_model(
              module.default_halo_type_split.halo_type_split_abcissa,
              module.default_halo_type_split.halo_type_split_ordinates, primary),
          LAMBDA output_fraction :
        IF output_fraction.error # "none" THEN output_fraction
        ELSE [error |-> "none",
              value |-> array([i \in DOMAIN primary |->
                  IF RLt(output_fraction.value[i], Zero) THEN Zero
                  ELSE IF RGt(output_fraction.value[i], One) THEN One
                  ELSE output_fraction.value[i]])])

\* halo_type1_fraction_centrals and halo_type1_fraction_satellites of the
\* class of the instance.
halo_type1_fraction_centrals(class, module, baseline_parameter_dict, primary) ==
    IF class = "Satcen_Correlation_Polynomial_HOD_Model"
    THEN Satcen_halo_type1_fraction_centrals(primary)
    ELSE Polynomial_halo_type1_fraction_centrals(module, primary)

halo_type1_fraction_satellites(class, module, baseline_parameter_dict, primary) ==
    IF class = "Satcen_Correlation_Polynomial_HOD_Model"
    THEN Satcen_halo_type1_fraction_satellites(baseline_parameter_dict, primary)
    ELSE Polynomial_halo_type1_fraction_satellites(module, primary)

\* unconstrained_central_destruction_halo_type1 and
\* unconstrained_satellite_destruction_halo_type1 of the two assembly bias
\* classes: the control points are read from self.parameter_dict.
unconstrained_central_destruction_halo_type1(self, primary) ==
    unconstrained_polynomial_model(self.parameter_dict.assembias_abcissa,
        self.parameter_dict.central_assembias_ordinates, primary)

unconstrained_satellite_destruction_halo_type1(self, primary) ==
    unconstrained_polynomial_model(self.parameter_dict.assembias_abcissa,
        self.parameter_dict.satellite_assembias_ordinates, primary)

\* vdB03_Quenching_Model.mean_quenched_fraction_centrals and
\* mean_quenched_fraction_satellites: the control points are read from
\* self.quenching_parameter_dict; the halo type is not used.
mean_quenched_fraction_centrals(self, primary, h) ==
    quenching_polynomial_model(self.quenching_parameter_dict.quenching_abcissa,
        self.quenching_parameter_dict.central_quenching_ordinates, primary)

mean_quenched_fraction_satellites(self, primary, h) ==
    quenching_polynomial_model(self.quenching_parameter_dict.quenching_abcissa,
        self.quenching_parameter_dict.satellite_quenching_ordinates, primary)

\* The first error of two calls made one after the other.
FirstError(first, second) == IF first.error # "none" THEN first.error ELSE second.error

\* The engine of Assembly_Biased_HOD_Model applied to the arrays the
\* functions of the instance return: an error raised by one of the two
\* polynomial models is not caught.
engine_call(D, F1, Body(_, _)) ==
    IF FirstError(D, F1) # "none"
    THEN [error |-> FirstError(D, F1), value |-> <<>>]
    ELSE [error |-> "none", value |-> Body(D.value, F1.value)]

\* The methods of Assembly_Biased_HOD_Model on an instance of one of its two
\* concrete classes: the error raised and the array returned.
assembly_biased_call(class, module, self, baseline_parameter_dict, name, primary, h) ==
    CASE name = "halo_type1_fraction_centrals" ->
            halo_type1_fraction_centrals(class, module, baseline_parameter_dict, primary)
      [] name = "halo_type1_fraction_satellites" ->
            halo_type1_fraction_satellites(class, module, baseline_parameter_dict, primary)
      [] name = "halo_type_fraction_centrals" ->
            Local(halo_type1_fraction_centrals(class, module, baseline_parameter_dict,
                                               primary),
                  LAMBDA F1 : engine_call(F1, F1,
                      LAMBDA d, f : halo_type_fraction_centrals(f, h)))
      [] name = "halo_type_fraction_satellites" ->
            Local(halo_type1_fraction_satellites(class, module, baseline_parameter_dict,
                                                 primary),
                  LAMBDA F1 : engine_call(F1, F1,
                      LAMBDA d, f : halo_type_fraction_satellites(f, h)))
      [] name = "destruction_centrals" ->
            Local(unconstrained_central_destruction_halo_type1(self, primary), LAMBDA D :
                Local(halo_type1_fraction_centrals(class, module,
                          baseline_parameter_dict, primary), LAMBDA F1 :
                    Local(Zheng07_mean_ncen(baseline_parameter_dict, primary, h),
                          LAMBDA N : engine_call(D, F1,
                              LAMBDA d, f : destruction_centrals(d, f, N, h)))))
      [] name = "destruction_satellites" ->
            Local(unconstrained_satellite_destruction_halo_type1(self, primary), LAMBDA D :
                Local(halo_type1_fraction_satellites(class, module,
                          baseline_parameter_dict, primary), LAMBDA F1 :
                    engine_call(D, F1, LAMBDA d, f : destruction_satellites(d, f, h))))
      [] name = "mean_ncen" ->
            Local(unconstrained_central_destruction_halo_type1(self, primary), LAMBDA D :
                Local(halo_type1_fraction_centrals(class, module,
                          baseline_parameter_dict, primary), LAMBDA F1 :
                    Local(Zheng07_mean_ncen(baseline_parameter_dict, primary, h),
                          LAMBDA N : engine_call(D, F1,
                              LAMBDA d, f : mean_ncen(d, f, N, h)))))
      [] name = "mean_nsat" ->
            Local(unconstrained_satellite_destruction_halo_type1(self, primary), LAMBDA D :
                Local(halo_type1_fraction_satellites(class, module,
                          baseline_parameter_dict, primary), LAMBDA F1 :
                    Local(Zheng07_mean_nsat(baseline_parameter_dict, primary, h),
                          LAMBDA N : engine_call(D, F1,
                              LAMBDA d, f : mean_nsat(d, f, N, h)))))
      [] name = "mean_concentration" ->
            [error |-> "none",
             value |-> Zheng07_mean_concentration(baseline_parameter_dict, primary, h)]

\* The methods of vdB03_Quenching_Model.
vdB03_call(self, baseline_parameter_dict, name, primary, h) ==
    CASE name = "mean_quenched_fraction_centrals" ->
            mean_quenched_fraction_centrals(self, primary, h)
      [] name = "mean_quenched_fraction_satellites" ->
            mean_quenched_fraction_satellites(self, primary, h)
      [] name = "mean_ncen" ->
            [error |-> "none", value |-> vdB03_mean_ncen(baseline_parameter_dict, primary, h)]
      [] name = "mean_nsat" ->
            [error |-> "none", value |-> vdB03_mean_nsat(baseline_parameter_dict, primary, h)]
      [] name = "mean_concentration" ->
            [error |-> "none",
             value |-> vdB03_mean_concentration(baseline_parameter_dict, primary, h)]

\* The method of the class of the instance.
composite_call(class, module, self, baseline_parameter_dict, name, primary, h) ==
    IF class = "vdB03_Quenching_Model"
    THEN vdB03_call(self, baseline_parameter_dict, name, primary, h)
    ELSE assembly_biased_call(class, module, self, baseline_parameter_dict, name, primary, h)

\* Variant: a polynomial model that accumulates into the array of ordinates
\* it was handed.
written_arrays_ordinates(name) ==
    {"central_quenching_ordinates", "satellite_quenching_ordinates",
     "central_assembias_ordinates", "satellite_assembias_ordinates"}

\* The arrays the statements of a method assign into (x[...] = ..., x += ...),
\* under the names the code binds them to.  Each is an array the method
\* made (np.zeros, np.ones, np.array, an arithmetic result) or got from a
\* method that made it; none is a value of a parameter dictionary.
written_arrays(name) ==
    CASE name \in {"halo_type1_fraction_centrals", "halo_type1_fraction_satellites"} ->
            {"output_array", "output_fraction",
             "output_unconstrained_destruction_function"}
      [] name \in {"halo_type_fraction_centrals", "halo_type_fraction_satellites"} ->
            {"output_halo_type_fraction", "output_fraction",
             "output_unconstrained_destruction_function"}
      [] name \in {"destruction_centrals", "destruction_satellites",
                   "mean_ncen", "mean_nsat"} ->
            {"output_destruction_allhalos", "output_destruction_input_halo_type0",
             "output_maximum_destruction", "output_maximum_destruction_case1",
             "output_maximum_destruction_case2", "output_halo_type_fraction",
             "output_fraction", "output_unconstrained_destruction_function",
             "mean_nsat"}
      [] name \in {"mean_quenched_fraction_centrals",
                   "mean_quenched_fraction_satellites"} ->
            {"output_quenched_fractions"}
      [] name = "halo_type_calculator" ->
            {"halo_types", "halo_types_with_bin_index_i"}
      [] OTHER -> {}

\* A dictionary after a call of the method: the values under the names the
\* method assigns into are the array it built.
after_call(dictionary, name, value) ==
    [key \in DOMAIN dictionary |->
        IF key \in written_arrays(name) THEN value ELSE dictionary[key]]

\* The instance after a call of the method.
instance_after_call(class, self, name, value) ==
    IF class = "vdB03_Quenching_Model"
    THEN [self EXCEPT
             !.parameter_dict = after_call(@, name, value),
             !.baseline_hod_parameter_dict = after_call(@, name, value),
             !.quenching_parameter_dict = after_call(@, name, value)]
    ELSE [self EXCEPT
             !.parameter_dict = after_call(@, name, value),
             !.baseline_hod_parameter_dict = after_call(@, name, value),
             !.assembias_parameter_dict = after_call(@, name, value)]

\* An instance as the constructor binds it, holding the given dictionaries.
composite_instance(class, baseline_parameter_dict, model_parameter_dict) ==
    IF class = "vdB03_Quenching_Model"
    THEN [parameter_dict |->
              merged_parameter_dict(baseline_parameter_dict, model_parameter_dict),
          threshold |-> None,
          warnings |-> <<>>,
          baseline_hod_parameter_dict |-> baseline_parameter_dict,
          quenching_parameter_dict |-> model_parameter_dict]
    ELSE [parameter_dict |->
              merged_parameter_dict(baseline_parameter_dict, model_parameter_dict),
          threshold |-> None,
          warnings |-> <<>>,
          baseline_hod_parameter_dict |-> baseline_parameter_dict,
          assembias_parameter_dict |-> model_parameter_dict]

\* Control points of the dictionary of assembly bias or quenching parameters
\* of an instance: the abcissa, the ordinates for centrals and those for
\* satellites.  The last has a value twice in the abcissa.
ModelControlPoints ==
    {<<<<Zero, Rat(2, 1)>>, <<Rat(3, 4), Zero>>, <<Zero, Zero>>>>,
     <<<<Zero, One>>, <<Zero, Rat(3, 4)>>, <<Rat(3, 4), Zero>>>>,
     <<<<One>>, <<Rat(3, 4)>>, <<Zero>>>>,
     <<<<One, One>>, <<Zero, Rat(3, 4)>>, <<Zero, Zero>>>>}

ModelParameterDicts(class) ==
    IF class = "vdB03_Quenching_Model"
    THEN {quenching_parameters(c[1], c[2], c[3]) : c \in ModelControlPoints}
    ELSE {assembias_parameters(c[1], c[2], c[3]) : c \in ModelControlPoints}

\* Parameters of the baseline of the instance at the time of the calls.
CompositeBaselineParameterDicts ==
    {pd \in EvaluatedParameterDicts :
        pd.sigma_logM = Rat(1, 2) /\ pd.logM0_sat = Zero /\ pd.alpha_sat = One}

\* The primary halo property the methods are called with: values below,
\* at and above the range of the control points.
CompositeBatches ==
    {<<One>>, <<Rat(-1, 1), Rat(3, 1)>>, <<Rat(-1, 1), One, Rat(3, 1)>>}

\* An instance of a composite class and the batch its methods are called
\* with.
InitComposite ==
    /\ EngineIdle
    /\ CalculatorIdle
    /\ SolverIdle
    /\ OccupationIdle
    /\ constructed_class \in CompositeClasses
    /\ parameter_dict_argument = None
    /\ threshold_argument = None
    /\ construction = "instance"
    /\ parameter_dict \in CompositeBaselineParameterDicts
    /\ threshold = None
    /\ warnings = <<>>
    /\ defaults \in DefaultsModules
    /\ model_parameter_dict_argument = None
    /\ \E m \in ModelParameterDicts(constructed_class) :
        composite = composite_instance(constructed_class, parameter_dict, m)
    /\ composite_method = "none"
    /\ composite_primary_halo_property \in CompositeBatches
    /\ composite_halo_type \in [DOMAIN composite_primary_halo_property -> HaloTypes]
    /\ composite_result = <<>>

CallCompositeHaloType1FractionCentrals ==
    /\ construction = "instance"
    /\ constructed_class # "vdB03_Quenching_Model"
    /\ \E call \in {composite_call(constructed_class, defaults, composite,
                                    parameter_dict, "halo_type1_fraction_centrals",
                                    composite_primary_halo_property,
                                    composite_halo_type)} :
        /\ composite_result' = IF call.error = "none" THEN call.value ELSE call.error
        /\ composite' = instance_after_call(constructed_class, composite,
                                            "halo_type1_fraction_centrals", call.value)
        /\ parameter_dict' = after_call(parameter_dict, "halo_type1_fraction_centrals", call.value)
    /\ composite_method' = "halo_type1_fraction_centrals"
    /\ UNCHANGED <<constructed_class, parameter_dict_argument, threshold_argument,
                   construction, threshold, warnings>>
    /\ UNCHANGED <<defaults, model_parameter_dict_argument,
                   composite_primary_halo_property, composite_halo_type>>
    /\ UNCHANGED <<engineVars, calculatorVars, solverVars, occupationVars>>

CallCompositeHaloType1FractionSatellites ==
    /\ construction = "instance"
    /\ constructed_class # "vdB03_Quenching_Model"
    /\ \E call \in {composite_call(constructed_class, defaults, composite,
                                    parameter_dict, "halo_type1_fraction_satellites",
                                    composite_primary_halo_property,
                                    composite_halo_type)} :
        /\ composite_result' = IF call.error = "none" THEN call.value ELSE call.error
        /\ composite' = instance_after_call(constructed_class, composite,
                                            "halo_type1_fraction_satellites", call.value)
        /\ parameter_dict' = after_call(parameter_dict, "halo_type1_fraction_satellites", call.value)
    /\ composite_method' = "halo_type1_fraction_satellites"
    /\ UNCHANGED <<constructed_class, parameter_dict_argument, threshold_argument,
                   construction, threshold, warnings>>
    /\ UNCHANGED <<defaults, model_parameter_dict_argument,
                   composite_primary_halo_property, composite_halo_type>>
    /\ UNCHANGED <<engineVars, calculatorVars, solverVars, occupationVars>>

CallCompositeHaloTypeFractionCentrals ==
    /\ construction = "instance"
    /\ constructed_class # "vdB03_Quenching_Model"
    /\ \E call \in {composite_call(constructed_class, defaults, composite,
                                    parameter_dict, "halo_type_fraction_centrals",
                                    composite_primary_halo_property,
                                    composite_halo_type)} :
        /\ composite_result' = IF call.error = "none" THEN call.value ELSE call.error
        /\ composite' = instance_after_call(constructed_class, composite,
                                            "halo_type_fraction_centrals", call.value)
        /\ parameter_dict' = after_call(parameter_dict, "halo_type_fraction_centrals", call.value)
    /\ composite_method' = "halo_type_fraction_centrals"
    /\ UNCHANGED <<constructed_class, parameter_dict_argument, threshold_argument,
                   construction, threshold, warnings>>
    /\ UNCHANGED <<defaults, model_parameter_dict_argument,
                   composite_primary_halo_property, composite_halo_type>>
    /\ UNCHANGED <<engineVars, calculatorVars, solverVars, occupationVars>>

CallCompositeHaloTypeFractionSatellites ==
    /\ construction = "instance"
    /\ constructed_class # "vdB03_Quenching_Model"
    /\ \E call \in {composite_call(constructed_class, defaults, composite,
                                    parameter_dict, "halo_type_fraction_satellites",
                                    composite_primary_halo_property,
                                    composite_halo_type)} :
        /\ composite_result' = IF call.error = "none" THEN call.value ELSE call.error
        /\ composite' = instance_after_call(constructed_class, composite,
                                            "halo_type_fraction_satellites", call.value)
        /\ parameter_dict' = after_call(parameter_dict, "halo_type_fraction_satellites", call.value)
    /\ composite_method' = "halo_type_fraction_satellites"
    /\ UNCHANGED <<constructed_class, parameter_dict_argument, threshold_argument,
                   construction, threshold, warnings>>
    /\ UNCHANGED <<defaults, model_parameter_dict_argument,
                   composite_primary_halo_property, composite_halo_type>>
    /\ UNCHANGED <<engineVars, calculatorVars, solverVars, occupationVars>>

CallCompositeDestructionCentrals ==
    /\ construction = "instance"
    /\ constructed_class # "vdB03_Quenching_Model"
    /\ \E call \in {composite_call(constructed_class, defaults, composite,
                                    parameter_dict, "destruction_centrals",
                                    composite_primary_halo_property,
                                    composite_halo_type)} :
        /\ composite_result' = IF call.error = "none" THEN call.value ELSE call.error
        /\ composite' = instance_after_call(constructed_class, composite,
                                            "destruction_centrals", call.value)
        /\ parameter_dict' = after_call(parameter_dict, "destruction_centrals", call.value)
    /\ composite_method' = "destruction_centrals"
    /\ UNCHANGED <<constructed_class, parameter_dict_argument, threshold_argument,
                   construction, threshold, warnings>>
    /\ UNCHANGED <<defaults, model_parameter_dict_argument,
                   composite_primary_halo_property, composite_halo_type>>
    /\ UNCHANGED <<engineVars, calculatorVars, solverVars, occupationVars>>

CallCompositeDestructionSatellites ==
    /\ construction = "instance"
    /\ constructed_class # "vdB03_Quenching_Model"
    /\ \E call \in {composite_call(constructed_class, defaults, composite,
                                    parameter_dict, "destruction_satellites",
                                    composite_primary_halo_property,
                                    composite_halo_type)} :
        /\ composite_result' = IF call.error = "none" THEN call.value ELSE call.error
        /\ composite' = instance_after_call(constructed_class, composite,
                                            "destruction_satellites", call.value)
        /\ parameter_dict' = after_call(parameter_dict, "destruction_satellites", call.value)
    /\ composite_method' = "destruction_satellites"
    /\ UNCHANGED <<constructed_class, parameter_dict_argument, threshold_argument,
                   construction, threshold, warnings>>
    /\ UNCHANGED <<defaults, model_parameter_dict_argument,
                   composite_primary_halo_property, composite_halo_type>>
    /\ UNCHANGED <<engineVars, calculatorVars, solverVars, occupationVars>>

CallCompositeMeanNcen ==
    /\ construction = "instance"
    /\ \E call \in {composite_call(constructed_class, defaults, composite,
                                    parameter_dict, "mean_ncen",
                                    composite_primary_halo_property,
                                    composite_halo_type)} :
        /\ composite_result' = IF call.error = "none" THEN call.value ELSE call.error
        /\ composite' = instance_after_call(constructed_class, composite,
                                            "mean_ncen", call.value)
        /\ parameter_dict' = after_call(parameter_dict, "mean_ncen", call.value)
    /\ composite_method' = "mean_ncen"
    /\ UNCHANGED <<constructed_class, parameter_dict_argument, threshold_argument,
                   construction, threshold, warnings>>
    /\ UNCHANGED <<defaults, model_parameter_dict_argument,
                   composite_primary_halo_property, composite_halo_type>>
    /\ UNCHANGED <<engineVars, calculatorVars, solverVars, occupationVars>>

CallCompositeMeanNsat ==
    /\ construction = "instance"
    /\ \E call \in {composite_call(constructed_class, defaults, composite,
                                    parameter_dict, "mean_nsat",
                                    composite_primary_halo_property,
                                    composite_halo_type)} :
        /\ composite_result' = IF call.error = "none" THEN call.value ELSE call.error
        /\ composite' = instance_after_call(constructed_class, composite,
                                            "mean_nsat", call.value)
        /\ parameter_dict' = after_call(parameter_dict, "mean_nsat", call.value)
    /\ composite_method' = "mean_nsat"
    /\ UNCHANGED <<constructed_class, parameter_dict_argument, threshold_argument,
                   construction, threshold, warnings>>
    /\ UNCHANGED <<defaults, model_parameter_dict_argument,
                   composite_primary_halo_property, composite_halo_type>>
    /\ UNCHANGED <<engineVars, calculatorVars, solverVars, occupationVars>>

CallCompositeMeanConcentration ==
    /\ construction = "instance"
    /\ \E call \in {composite_call(constructed_class, defaults, composite,
                                    parameter_dict, "mean_concentration",
                                    composite_primary_halo_property,
                                    composite_halo_type)} :
        /\ composite_result' = IF call.error = "none" THEN call.value ELSE call.error
        /\ composite' = instance_after_call(constructed_class, composite,
                                            "mean_concentration", call.value)
        /\ parameter_dict' = after_call(parameter_dict, "mean_concentration", call.value)
    /\ composite_method' = "mean_concentration"
    /\ UNCHANGED <<constructed_class, parameter_dict_argument, threshold_argument,
                   construction, threshold, warnings>>
    /\ UNCHANGED <<defaults, model_parameter_dict_argument,
                   composite_primary_halo_property, composite_halo_type>>
    /\ UNCHANGED <<engineVars, calculatorVars, solverVars, occupationVars>>

CallCompositeMeanQuenchedFractionCentrals ==
    /\ construction = "instance"
    /\ constructed_class = "vdB03_Quenching_Model"
    /\ \E call \in {composite_call(constructed_class, defaults, composite,
                                    parameter_dict, "mean_quenched_fraction_centrals",
                                    composite_primary_halo_property,
                                    composite_halo_type)} :
        /\ composite_result' = IF call.error = "none" THEN call.value ELSE call.error
        /\ composite' = instance_after_call(constructed_class, composite,
                                            "mean_quenched_fraction_centrals", call.value)
        /\ parameter_dict' = after_call(parameter_dict, "mean_quenched_fraction_centrals", call.value)
    /\ composite_method' = "mean_quenched_fraction_centrals"
    /\ UNCHANGED <<constructed_class, parameter_dict_argument, threshold_argument,
                   construction, threshold, warnings>>
    /\ UNCHANGED <<defaults, model_parameter_dict_argument,
                   composite_primary_halo_property, composite_halo_type>>
    /\ UNCHANGED <<engineVars, calculatorVars, solverVars, occupationVars>>

CallCompositeMeanQuenchedFractionSatellites ==
    /\ construction = "instance"
    /\ constructed_class = "vdB03_Quenching_Model"
    /\ \E call \in {composite_call(constructed_class, defaults, composite,
                                    parameter_dict, "mean_quenched_fraction_satellites",
                                    composite_primary_halo_property,
                                    composite_halo_type)} :
        /\ composite_result' = IF call.error = "none" THEN call.value ELSE call.error
        /\ composite' = instance_after_call(constructed_class, composite,
                                            "mean_quenched_fraction_satellites", call.value)
        /\ parameter_dict' = after_call(parameter_dict, "mean_quenched_fraction_satellites", call.value)
    /\ composite_method' = "mean_quenched_fraction_satellites"
    /\ UNCHANGED <<constructed_class, parameter_dict_argument, threshold_argument,
                   construction, threshold, warnings>>
    /\ UNCHANGED <<defaults, model_parameter_dict_argument,
                   composite_primary_halo_property, composite_halo_type>>
    /\ UNCHANGED <<engineVars, calculatorVars, solverVars, occupationVars>>

\* halo_type_calculator on the batch, the secondary halo property ascending
\* with the position in the array, a type-1 fraction of one half and bins
\* of unit width.
CallCompositeHaloTypeCalculator ==
    /\ construction = "instance"
    /\ constructed_class # "vdB03_Quenching_Model"
    /\ LET order == [i \in DOMAIN composite_primary_halo_property |-> i]
           raises == RaisesIndexError(composite_primary_halo_property,
                                      <<Rat(1, 2), Zero>>, One)
           value == IF raises THEN <<>>
                    ELSE halo_type_calculator(composite_primary_halo_property,
                                              <<Rat(1, 2), Zero>>, One, order)
       IN  /\ composite_result' = IF raises THEN "IndexError" ELSE value
           /\ composite' = instance_after_call(constructed_class, composite,
                                               "halo_type_calculator", value)
           /\ parameter_dict' = after_call(parameter_dict, "halo_type_calculator", value)
    /\ composite_method' = "halo_type_calculator"
    /\ UNCHANGED <<constructed_class, parameter_dict_argument, threshold_argument,
                   construction, threshold, warnings>>
    /\ UNCHANGED <<defaults, model_parameter_dict_argument,
                   composite_primary_halo_property, composite_halo_type>>
    /\ UNCHANGED <<engineVars, calculatorVars, solverVars, occupationVars>>

NextComposite ==
    \/ CallCompositeHaloType1FractionCentrals
    \/ CallCompositeHaloType1FractionSatellites
    \/ CallCompositeHaloTypeFractionCentrals
    \/ CallCompositeHaloTypeFractionSatellites
    \/ CallCompositeDestructionCentrals
    \/ CallCompositeDestructionSatellites
    \/ CallCompositeMeanNcen
    \/ CallCompositeMeanNsat
    \/ CallCompositeMeanConcentration
    \/ CallCompositeMeanQuenchedFractionCentrals
    \/ CallCompositeMeanQuenchedFractionSatellites
    \/ CallCompositeHaloTypeCalculator

SpecComposite == InitComposite /\ [][NextComposite]_vars


-----------------------------------------------------------------------------
(* Properties of the quenched fractions of vdB03_Quenching_Model.          *)

\* The abcissa of the quenching control points of the instance are pairwise
\* distinct.
QuenchingAbcissaDistinct ==
    LET x == composite.quenching_parameter_dict.quenching_abcissa
    IN  \A j, k \in DOMAIN x : j # k => x[j] # x[k]

\* v where it lies in [0, 1], 0 where it is negative, 1 where it exceeds 1.
ClampToUnitInterval(v) ==
    IF RLt(v, Zero) THEN Zero ELSE IF RGt(v, One) THEN One ELSE v

\* Ordinates the other population could have at the same abcissa.
OtherOrdinates(x) == [DOMAIN x -> {Zero, Rat(1, 2), One}]

-----------------------------------------------------------------------------
(* Frame of the methods of a composite model.                              *)

-----------------------------------------------------------------------------
(* Properties of the halo type fractions of the assembly bias classes.     *)

=============================================================================
